---- MODULE Spec2Model ----
(***************************************************************************)
(* Order negotiation engine of api_langgraph_app: the /api/orchestrate     *)
(* round loop, the five gate evaluators, the two consensus steps (live     *)
(* agent pipeline and LangGraph manager) and the round revision.           *)
(*                                                                         *)
(* Units.  Money is in whole cents.  Confidences are in 1/10000 (0.70 is   *)
(* 7000, a confidence reported as 85 on a 0-100 scale is 850000).  Rates   *)
(* (margins, uplifts, discounts, multipliers) are in percent.  A delivery  *)
(* date is the number of days between today and that date.                 *)
(***************************************************************************)
EXTENDS Integers, Sequences, FiniteSets, TLC

\* Python's None / an absent dictionary key, for integer-valued fields.
Null == -1

----------------------------------------------------------------------------
(* Arithmetic helpers *)

Max(a, b) == IF a >= b THEN a ELSE b

Min(a, b) == IF a <= b THEN a ELSE b

\* round(n / d) to the nearest integer, ties to even (Python 3 round), d > 0.
RoundDivNat(m, d) ==
  IF 2 * (m % d) < d THEN m \div d
  ELSE IF 2 * (m % d) > d THEN (m \div d) + 1
  ELSE IF (m \div d) % 2 = 0 THEN m \div d ELSE (m \div d) + 1

RoundDiv(n, d) == IF n >= 0 THEN RoundDivNat(n, d) ELSE 0 - RoundDivNat(0 - n, d)

\* math.ceil(n / d) for n >= 0, d > 0.
CeilDiv(n, d) == (n + d - 1) \div d

\* int(n / d): truncation toward zero, n >= 0, d > 0.
TruncDiv(n, d) == n \div d

----------------------------------------------------------------------------
(* services.py: safe_int, safe_float, normalize_confidence, priorities *)

safe_int(value, default) == IF value = Null THEN default ELSE value

safe_float(value, default) == IF value = Null THEN default ELSE value

\* MIN_CONSENSUS_CONFIDENCE, default 0.70
MIN_CONSENSUS_CONFIDENCE == 7000

\* 1.0 on the confidence scale
ONE == 10000

\* raw > 1.0 is read as a 0-100 value and divided by 100, then clamped to [0, 1].
normalize_confidence(value, default) ==
  LET raw0 == safe_float(value, default)
      raw  == IF raw0 > ONE THEN raw0 \div 100 ELSE raw0
  IN IF raw < 0 THEN 0 ELSE IF raw > ONE THEN ONE ELSE raw

\* manager.py keeps its own copy of the normalisation.
manager_normalize_confidence(value, default) ==
  LET raw0 == IF value = Null THEN default ELSE value
      raw  == IF raw0 > ONE THEN raw0 \div 100 ELSE raw0
  IN Max(0, Min(ONE, raw))

\* A priority passed on as it is.
priority_as_given(priority) == priority

normalize_priority(priority) ==
  IF priority \in {"rush", "critical", "expedited"} THEN "expedited" ELSE "normal"

----------------------------------------------------------------------------
(* agents/registry.py and agents/runtime/manager.py: gate identifiers *)

Gates == {"procurement", "production", "logistics", "finance", "sales"}

\* AGENT_IDS = list(AGENT_DETAILS.keys()): the insertion order of the registry dict.
AGENT_IDS == <<"production", "finance", "logistics", "procurement", "sales">>

\* The literal list LLMManagerAgent._generate_final_response walks.
MANAGER_AGENT_ORDER == <<"procurement", "production", "logistics", "finance", "sales">>

----------------------------------------------------------------------------
(* agents/runtime/inventory.py: InventoryManager, the read-only policy store *)

\* A Python dict is a function from keys to values; {} is the empty function.
EmptyDict == << >>

\* dict.get(key, default)
Get(d, key, default) == IF key \in DOMAIN d THEN d[key] ELSE default

\* The built-in default tables of InventoryManager.__init__ (no data/*.json override).
procurement_policy ==
  [primary_supplier |-> "ChemCorp Asia", primary_lead_time_days |-> 10,
   alternate_supplier |-> "EuroChem GmbH", alternate_lead_time_days |-> 14]

production_policy ==
  [weekly_capacity |-> 4000, standard_lead_time_days |-> 22,
   max_overtime_hours_per_day |-> 4, working_days_per_week |-> 5,
   max_planning_weeks |-> 4]

\* shipping_modes in dict order, with cost_per_unit in cents.
ShippingModeOrder == <<"ground", "express", "air">>

logistics_policy ==
  [shipping_modes |->
     [m \in {"ground", "express", "air"} |->
        IF m = "ground" THEN [cost_per_unit |-> 30, transit_days |-> 5]
        ELSE IF m = "express" THEN [cost_per_unit |-> 85, transit_days |-> 3]
        ELSE [cost_per_unit |-> 210, transit_days |-> 1]],
   default_mode |-> "ground"]

finance_policy ==
  [margin_floor |-> 15, target_margin |-> 22, rush_surcharge_rate |-> 12,
   base_cost_per_unit |-> 850,
   volume_discounts |-> << [min_qty |-> 0,    max_qty |-> 99,       rate |-> 0],
                           [min_qty |-> 100,  max_qty |-> 999,      rate |-> 1],
                           [min_qty |-> 1000, max_qty |-> 4999,     rate |-> 2],
                           [min_qty |-> 5000, max_qty |-> 99999999, rate |-> 3] >>]

sales_policy ==
  [default_customer |-> [tier |-> "standard", max_price_uplift |-> 20,
                         acceptable_delivery_buffer_days |-> 2],
   customers |-> [c \in {"acme corp"} |->
                    [tier |-> "strategic", max_price_uplift |-> 25,
                     acceptable_delivery_buffer_days |-> 3]]]

\* str(customer or '').strip().lower() on the customer names of the model.
LowerCase(customer) == IF customer = "Acme Corp" THEN "acme corp" ELSE customer

get_customer_profile(customer) ==
  LET customer_key == LowerCase(customer)
  IN IF customer_key \in DOMAIN sales_policy.customers
       THEN sales_policy.customers[customer_key]
       ELSE sales_policy.default_customer

\* The 'materials' of the BOM entry of the SKU; {} when the SKU has no entry.
get_product_bom(im, sku) == Get(im.materials, sku, EmptyDict)

\* item['stock'] of the material, None when the material has no inventory row.
get_material_stock(im, material_id) == Get(im.stock, material_id, Null)

\* item['unit_cost'] of the material, in cents.
get_material_price(im, material_id) == Get(im.unit_cost, material_id, Null)

RECURSIVE DiscountFrom(_, _)
DiscountFrom(i, quantity) ==
  IF i > Len(finance_policy.volume_discounts) THEN 0
  ELSE LET tier == finance_policy.volume_discounts[i]
       IN IF quantity >= tier.min_qty /\ quantity <= tier.max_qty
            THEN tier.rate
            ELSE DiscountFrom(i + 1, quantity)

\* The rate of the first tier that contains the quantity, 0.0 when none does.
get_volume_discount_rate(quantity) == DiscountFrom(1, quantity)

\* Sum of f over a finite set of keys.
RECURSIVE SumOver(_, _)
SumOver(f, keys) ==
  IF keys = {} THEN 0
  ELSE LET k == CHOOSE x \in keys : TRUE
       IN f[k] + SumOver(f, keys \ {k})

\* Minimum of a non-empty finite set of integers.
SetMin(S) == CHOOSE x \in S : \A y \in S : x <= y

\* Python's "value or default": None and 0 are both falsy.
OrElse(value, default) == IF value = Null \/ value = 0 THEN default ELSE value

----------------------------------------------------------------------------
(* The narrator: what the LLM call of a gate returns.  kind "error" is a    *)
(* raised exception; kind "structured" carries the confidence of the        *)
(* structured response and, for production, the strategy argument the LLM   *)
(* passed to the capacity and schedule tools ("none": tools not called).    *)

NarratorError == [kind |-> "error", confidence |-> Null, strategy |-> "none"]

NarratorStructured(confidence, strategy) ==
  [kind |-> "structured", confidence |-> confidence, strategy |-> strategy]

\* A structured answer of the finance LLM, without a confidence, after one call
\* of its verify_final_margin tool with the given final_price argument.
NarratorVerifying(final_price) ==
  [kind |-> "structured", confidence |-> Null, strategy |-> "none",
   final_price |-> final_price]

\* A structured answer of the procurement LLM after one call of its
\* query_supplier_inventory tool with the given supplier_name.
NarratorQuerying(confidence, supplier_name) ==
  [kind |-> "structured", confidence |-> confidence, strategy |-> "none",
   supplier_name |-> supplier_name]

----------------------------------------------------------------------------
(* agents/procurement/tools.py and agents/procurement/llm.py *)

build_material_requirements(order, im) ==
  LET sku      == order.product_sku
      quantity == Max(0, OrElse(order.quantity, 0))
      bom      == get_product_bom(im, sku)
  IN IF bom = EmptyDict
       THEN [sku |-> sku, quantity |-> quantity, materials |-> EmptyDict,
             feasible_quantity |-> 0]
       ELSE LET materials ==
                  [material_id \in DOMAIN bom |->
                     LET qty_per_unit == bom[material_id]
                         required  == qty_per_unit * quantity
                         available == OrElse(get_material_stock(im, material_id), 0)
                         unit_cost == OrElse(get_material_price(im, material_id), 0)
                     IN [quantity_per_unit |-> qty_per_unit,
                         required     |-> required,
                         available    |-> available,
                         shortfall    |-> Max(0, required - available),
                         is_available |-> available >= required,
                         unit_cost    |-> unit_cost,
                         line_cost    |-> required * unit_cost]]
                immediate_units ==
                  {materials[m].available \div Max(1, materials[m].quantity_per_unit) :
                     m \in DOMAIN bom}
            IN [sku |-> sku, quantity |-> quantity, materials |-> materials,
                feasible_quantity |-> Max(0, SetMin(immediate_units))]

query_supplier_inventory(im, shortages, supplier_name) ==
  LET supplier           == Get(im.suppliers, supplier_name, EmptyDict)
      supplier_materials == Get(supplier, "materials", EmptyDict)
      coverage ==
        [material_id \in DOMAIN shortages |->
           LET shortfall          == shortages[material_id].shortfall
               supplier_item      == Get(supplier_materials, material_id, EmptyDict)
               supplier_available == OrElse(Get(supplier_item, "available", Null), 0)
           IN [shortfall          |-> shortfall,
               supplier_available |-> supplier_available,
               reserved_quantity  |-> Min(shortfall, supplier_available),
               price_multiplier   |-> Get(supplier_item, "price_multiplier", 100)]]
  IN [supplier       |-> supplier_name,
      lead_time_days |-> OrElse(Get(supplier, "lead_time_days", Null), 0),
      coverage       |-> coverage,
      can_fulfill    |-> \A m \in DOMAIN coverage :
                            coverage[m].reserved_quantity >= coverage[m].shortfall]

query_alternate_supplier(im, shortages) ==
  query_supplier_inventory(im, shortages, procurement_policy.alternate_supplier)

reserve_materials(im, supplier_result) ==
  LET coverage == supplier_result.coverage
      reserved == {m \in DOMAIN coverage : coverage[m].reserved_quantity > 0}
  IN [supplier |-> supplier_result.supplier,
      reserved_materials |->
        [m \in reserved |->
           [reserved_quantity |-> coverage[m].reserved_quantity,
            price_multiplier  |-> OrElse(coverage[m].price_multiplier, 100)]],
      lead_time_days |-> supplier_result.lead_time_days]

submit_purchase_order(im, supplier_name, reserved_materials) ==
  LET line_cost ==
        [m \in DOMAIN reserved_materials |->
           LET quantity   == reserved_materials[m].reserved_quantity
               unit_cost  == OrElse(get_material_price(im, m), 0)
               multiplier == OrElse(reserved_materials[m].price_multiplier, 100)
               effective_unit_cost == RoundDiv(unit_cost * multiplier, 100)
           IN effective_unit_cost * quantity]
  IN [supplier |-> supplier_name,
      total_cost |-> SumOver(line_cost, DOMAIN line_cost)]

\* The verdict of _deterministic_inventory_check.  tool_results holds the names
\* of the tools the check ran itself, purchase_order the order it placed.
procurement_verdict(can_proceed, reasoning, confidence, total_cost, material_availability, tool_results, purchase_order) ==
  [can_proceed |-> can_proceed,
   reasoning   |-> reasoning,
   confidence  |-> confidence,
   total_cost  |-> total_cost + OrElse(Get(purchase_order, "total_cost", Null), 0),
   material_availability |-> material_availability,
   tool_results   |-> tool_results,
   purchase_order |-> purchase_order]

\* _deterministic_inventory_check, some material short: the primary supplier,
\* then the alternate supplier, each with the two-day buffer.
procurement_supplier_decision(im, requested_delivery_days, total_cost, material_availability, primary_result, alternate_result, tool_results) ==
  LET primary_lead_time   == primary_result.lead_time_days
      alternate_lead_time == alternate_result.lead_time_days
      buffer_days == 2
  IN IF primary_result.can_fulfill
          /\ requested_delivery_days >= primary_lead_time + buffer_days
       THEN procurement_verdict(
              TRUE, "procurement: primary supplier can replenish the missing material",
              8600, total_cost, material_availability,
              tool_results \cup {"reserve_materials", "submit_purchase_order"},
              submit_purchase_order(im, procurement_policy.primary_supplier,
                                    reserve_materials(im, primary_result).reserved_materials))
     ELSE IF alternate_result.can_fulfill
             /\ requested_delivery_days >= alternate_lead_time + buffer_days
       THEN procurement_verdict(
              TRUE, "procurement: alternate supplier can replenish the shortage",
              8200, total_cost, material_availability,
              tool_results \cup {"reserve_materials", "submit_purchase_order"},
              submit_purchase_order(im, alternate_result.supplier,
                                    reserve_materials(im, alternate_result).reserved_materials))
     ELSE procurement_verdict(FALSE, "procurement: insufficient inventory", 9000,
                              total_cost, material_availability, tool_results, EmptyDict)

\* The supplier the check takes for the primary one: the supplier the LLM
\* passed to its query_supplier_inventory tool call, if it made one.
primary_result_supplier(supplier_name) ==
  IF supplier_name = "none" THEN procurement_policy.primary_supplier ELSE supplier_name

\* The check with the stock branch removed: suppliers are asked even when
\* nothing is short.
procurement_stock_decision_always_sourcing(im, requested_delivery_days, total_cost, material_availability, shortages, supplier_name) ==
  procurement_supplier_decision(
    im, requested_delivery_days, total_cost, material_availability,
    query_supplier_inventory(im, shortages, primary_result_supplier(supplier_name)),
    query_alternate_supplier(im, shortages),
    {"build_material_requirements", "query_supplier_inventory", "query_alternate_supplier"})

\* _deterministic_inventory_check once total_cost and the shortages are known.
procurement_stock_decision(im, requested_delivery_days, total_cost, material_availability, shortages, supplier_name) ==
  IF DOMAIN shortages = {}
    THEN procurement_verdict(
           TRUE, "procurement: all required materials are available in inventory",
           9300, total_cost, material_availability,
           {"build_material_requirements", "inventory_only"}, EmptyDict)
    ELSE procurement_supplier_decision(
           im, requested_delivery_days, total_cost, material_availability,
           query_supplier_inventory(im, shortages, primary_result_supplier(supplier_name)),
           query_alternate_supplier(im, shortages),
           {"build_material_requirements", "query_alternate_supplier"}
             \cup (IF supplier_name = "none" THEN {"query_supplier_inventory"} ELSE {}))

\* _deterministic_inventory_check on the material rows of the requirements.
procurement_material_decision(im, requested_delivery_days, material_availability, supplier_name) ==
  IF material_availability = EmptyDict
    THEN procurement_verdict(FALSE, "procurement: SKU not found in material BOM", 9500,
                             0, EmptyDict, {"build_material_requirements"}, EmptyDict)
    ELSE procurement_stock_decision(
           im, requested_delivery_days,
           SumOver([m \in DOMAIN material_availability |-> material_availability[m].line_cost],
                   DOMAIN material_availability),
           material_availability,
           [m \in {k \in DOMAIN material_availability :
                     ~material_availability[k].is_available} |-> material_availability[m]],
           supplier_name)

\* LLMProcurementAgent._deterministic_inventory_check; supplier_name is the
\* argument of the LLM's query_supplier_inventory call among the tool results
\* ("none": no such call, as in the first check of invoke).
procurement_deterministic_inventory_check(order, im, supplier_name) ==
  procurement_material_decision(im, OrElse(order.requested_delivery_days, 18),
                                build_material_requirements(order, im).materials,
                                supplier_name)

\* LLMProcurementAgent.invoke around the deterministic check.
procurement_narrated(deterministic, narrator) ==
  [deterministic EXCEPT
     !.reasoning  = IF narrator.kind = "error"
                      THEN "LLM error. " \o deterministic.reasoning
                    ELSE IF ~deterministic.can_proceed
                      THEN deterministic.reasoning
                      ELSE "procurement: narrator text",
     !.confidence = IF narrator.kind = "error"
                      THEN deterministic.confidence
                      ELSE narrator.confidence]

\* LLMProcurementAgent.invoke: the check is repeated on the LLM's tool results
\* when the LLM call returns.
procurement_invoke(order, im, narrator) ==
  procurement_narrated(
    procurement_deterministic_inventory_check(
      order, im, IF narrator.kind = "error" THEN "none"
                 ELSE Get(narrator, "supplier_name", "none")),
    narrator)

----------------------------------------------------------------------------
(* agents/production/tools.py and agents/production/llm.py *)

\* profiles.get(strategy or 'baseline', profiles.get('baseline', {}))
get_strategy_profile(im, strategy) ==
  LET profiles == im.strategy_profiles
      key      == IF strategy = "" THEN "baseline" ELSE strategy
  IN Get(profiles, key, Get(profiles, "baseline", EmptyDict))

RECURSIVE SumLines(_, _, _)
SumLines(lines, i, capacity_multiplier) ==
  IF i > Len(lines) THEN 0
  ELSE LET line == lines[i]
           base_capacity == line.weekly_capacity
           current_load  == line.current_load
           available_capacity ==
             RoundDiv(base_capacity * Max(0, 100 - current_load) * capacity_multiplier, 10000)
       IN available_capacity + SumLines(lines, i + 1, capacity_multiplier)

check_production_capacity(im, product_sku, quantity, requested_days, strategy) ==
  LET lines == SelectSeq(im.lines, LAMBDA line : product_sku \in line.supported_skus)
      strategy_profile == get_strategy_profile(im, strategy)
      working_days   == production_policy.working_days_per_week
      planning_weeks == production_policy.max_planning_weeks
      capacity_multiplier     == Get(strategy_profile, "capacity_multiplier", 100)
      changeover_penalty_days == Get(strategy_profile, "changeover_penalty_days", 0)
      effective_weekly_capacity ==
        IF Len(lines) = 0
          THEN TruncDiv(production_policy.weekly_capacity * capacity_multiplier, 100)
          ELSE SumLines(lines, 1, capacity_multiplier)
      production_days ==
        Max(5, CeilDiv(quantity * working_days, Max(1, effective_weekly_capacity))
               + changeover_penalty_days)
  IN [strategy        |-> IF strategy = "" THEN "baseline" ELSE strategy,
      production_days |-> production_days,
      capacity_ok     |-> quantity <= effective_weekly_capacity * planning_weeks,
      schedule_ok     |-> production_days <= requested_days]

calculate_overtime(im, shortfall_days, strategy) ==
  LET max_ot_per_day   == production_policy.max_overtime_hours_per_day
      strategy_profile == get_strategy_profile(im, strategy)
      planned_overtime == Get(strategy_profile, "default_overtime_hours", 0)
      recommended_overtime == Min(max_ot_per_day + planned_overtime, max_ot_per_day + 2)
  IN [recommended_hours_per_day |-> recommended_overtime,
      total_overtime_hours      |-> Max(0, shortfall_days) * recommended_overtime]

\* recalculate_schedule on the capacity result it computed.
adjust_schedule(im, requested_days, strategy, capacity) ==
  LET shortfall_days == Max(0, capacity.production_days - requested_days)
      overtime == calculate_overtime(im, shortfall_days, strategy)
      adjusted_days ==
        Max(4, capacity.production_days
               - Min(shortfall_days, overtime.recommended_hours_per_day \div 2))
  IN [capacity |-> capacity,
      overtime |-> overtime,
      adjusted_days |-> adjusted_days,
      can_meet_requested_days |-> adjusted_days <= requested_days /\ capacity.capacity_ok]

recalculate_schedule(im, product_sku, quantity, requested_days, strategy) ==
  adjust_schedule(im, requested_days, strategy,
                  check_production_capacity(im, product_sku, quantity, requested_days, strategy))

\* LLMProductionAgent._fallback on the capacity and schedule tool results.
production_decision(im, requested_days, own_strategy, capacity, schedule) ==
  LET overtime == calculate_overtime(im, Max(0, schedule.adjusted_days - requested_days),
                                     own_strategy)
      production_days == schedule.adjusted_days
      overtime_hours  == overtime.recommended_hours_per_day
      capacity_ok == capacity.capacity_ok
      schedule_ok == schedule.can_meet_requested_days
      can_proceed == capacity_ok /\ schedule_ok
  IN [can_proceed     |-> can_proceed,
      production_days |-> production_days,
      overtime_hours  |-> overtime_hours,
      reasoning |-> IF can_proceed THEN "production: can schedule the order"
                    ELSE IF ~capacity_ok
                      THEN "production: load exceeds the planning window"
                      ELSE "production: misses the requested timeline",
      confidence |-> IF can_proceed THEN 8400 ELSE IF ~capacity_ok THEN 5800 ELSE 6400]

\* production_strategy or 'baseline'
own_strategy_of(negotiation_context) ==
  IF Get(negotiation_context, "production_strategy", "") = ""
    THEN "baseline"
    ELSE Get(negotiation_context, "production_strategy", "")

\* The strategy of the capacity and schedule results _fallback works on.
used_strategy_of(negotiation_context, tool_strategy) ==
  IF tool_strategy = "none" THEN own_strategy_of(negotiation_context) ELSE tool_strategy

\* LLMProductionAgent._fallback.  tool_strategy is the strategy argument of the
\* check_production_capacity and recalculate_schedule results found in
\* tool_results, "none" when tool_results holds neither.
production_fallback(im, product_sku, quantity, requested_days, negotiation_context, tool_strategy) ==
  production_decision(
    im, requested_days, own_strategy_of(negotiation_context),
    check_production_capacity(im, product_sku, quantity, requested_days,
                              used_strategy_of(negotiation_context, tool_strategy)),
    recalculate_schedule(im, product_sku, quantity, requested_days,
                         used_strategy_of(negotiation_context, tool_strategy)))

\* LLMProductionAgent.invoke around the two _fallback results: first is computed
\* before the LLM call, deterministic after it with the tool results of the call.
production_narrated(first, deterministic, narrator) ==
  IF narrator.kind = "error"
    THEN [first EXCEPT !.reasoning = "production: error in analysis"]
    ELSE [can_proceed     |-> deterministic.can_proceed,
          production_days |-> deterministic.production_days,
          overtime_hours  |-> deterministic.overtime_hours,
          reasoning  |-> IF deterministic.can_proceed
                           THEN "production: narrator text"
                           ELSE deterministic.reasoning,
          confidence |-> IF narrator.confidence = Null
                           THEN deterministic.confidence
                           ELSE narrator.confidence]

\* LLMProductionAgent.invoke
production_invoke(order, im, narrator) ==
  production_narrated(
    production_fallback(im, order.product_sku, OrElse(order.quantity, 0),
                        OrElse(order.requested_delivery_days, 18),
                        order.negotiation_context, "none"),
    production_fallback(im, order.product_sku, OrElse(order.quantity, 0),
                        OrElse(order.requested_delivery_days, 18),
                        order.negotiation_context, narrator.strategy),
    narrator)

----------------------------------------------------------------------------
(* agents/logistics/tools.py, agents/logistics/llm.py and the invoke        *)
(* override of agents/logistics/__init__.py                                 *)

\* location_profiles.get(key, {'type': 'national', ...})['type']
get_location_type(location) ==
  IF location = "local city" THEN "local"
  ELSE IF location = "regional state" THEN "regional"
  ELSE "national"

\* The first element of a non-empty sequence after a stable ascending sort with
\* the strict order Before.
FirstSorted(seq, Before(_, _)) ==
  LET i == CHOOSE k \in 1..Len(seq) :
             \A j \in 1..Len(seq) :
               j # k => (Before(seq[k], seq[j]) \/ (~Before(seq[j], seq[k]) /\ k < j))
  IN seq[i]

check_route_clearance(im, destination, quantity, mode) ==
  LET location_type == get_location_type(destination)
      carriers == Get(im.carrier_networks, mode, << >>)
      viable == SelectSeq(carriers,
                          LAMBDA carrier : /\ location_type \in carrier.supported_locations
                                           /\ quantity <= carrier.max_units)
      before(a, b) == \/ a.reliability > b.reliability
                      \/ (a.reliability = b.reliability /\ a.fixed_fee < b.fixed_fee)
  IN [location_type |-> location_type,
      mode      |-> mode,
      available |-> Len(viable) > 0,
      first_carrier |-> IF Len(viable) > 0 THEN FirstSorted(viable, before) ELSE EmptyDict]

evaluate_shipping_modes(im, order, production_days) ==
  LET quantity       == Max(1, OrElse(order.quantity, 1))
      requested_days == OrElse(order.requested_delivery_days, 18)
      destination    == order.customer_location
      modes          == logistics_policy.shipping_modes
      clearance(mode) == check_route_clearance(im, destination, quantity, mode)
      open_modes == SelectSeq(ShippingModeOrder, LAMBDA mode : clearance(mode).available)
      evaluation(mode) ==
        LET cfg == modes[mode]
            total_days == production_days + cfg.transit_days
        IN [mode          |-> mode,
            transit_days  |-> cfg.transit_days,
            total_days    |-> total_days,
            shipping_cost |-> cfg.cost_per_unit * quantity
                              + clearance(mode).first_carrier.fixed_fee,
            meets_schedule |-> total_days <= requested_days,
            reliability   |-> clearance(mode).first_carrier.reliability]
      evaluations == [i \in 1..Len(open_modes) |-> evaluation(open_modes[i])]
      before(a, b) ==
        \/ (a.meets_schedule /\ ~b.meets_schedule)
        \/ (a.meets_schedule = b.meets_schedule /\ a.shipping_cost < b.shipping_cost)
        \/ (a.meets_schedule = b.meets_schedule /\ a.shipping_cost = b.shipping_cost
            /\ a.reliability > b.reliability)
  IN [recommended |-> IF Len(evaluations) > 0
                        THEN FirstSorted(evaluations, before)
                        ELSE EmptyDict]

book_carrier(im, mode_result, order, production_days) ==
  LET recommended == mode_result.recommended
      total_days  == OrElse(Get(recommended, "total_days", Null), production_days + 5)
  IN [mode          |-> Get(recommended, "mode", "none"),
      delivery_date |-> total_days,
      shipping_cost |-> OrElse(Get(recommended, "shipping_cost", Null), 0)]

\* LLMLogisticsAgent._fallback on the evaluate_shipping_modes result.
logistics_decision(im, order, production_days, requested_days, mode_result) ==
  LET recommended == mode_result.recommended
      mode        == Get(recommended, "mode", logistics_policy.default_mode)
      booking     == book_carrier(im, mode_result, order, production_days)
      total_days  == OrElse(Get(recommended, "total_days", Null), production_days + 5)
      shipping_cost == OrElse(booking.shipping_cost,
                              OrElse(Get(recommended, "shipping_cost", Null), 0))
      can_proceed == Get(recommended, "meets_schedule", total_days <= requested_days)
  IN [can_proceed   |-> can_proceed,
      shipping_mode |-> mode,
      shipping_cost |-> shipping_cost,
      delivery_date |-> booking.delivery_date,
      reasoning     |-> "logistics: fallback logistics selected a mode",
      confidence    |-> IF can_proceed THEN 8000 ELSE 6200]

\* LLMLogisticsAgent._fallback with no tool results.
logistics_fallback(im, order, production_days) ==
  logistics_decision(im, order, production_days,
                     OrElse(order.requested_delivery_days, 18),
                     evaluate_shipping_modes(im, order, production_days))

\* The except branch of the exported invoke around the _fallback result.
logistics_error_result(fallback) ==
  [can_proceed   |-> fallback.can_proceed,
   shipping_mode |-> fallback.shipping_mode,
   shipping_cost |-> fallback.shipping_cost,
   delivery_date |-> fallback.delivery_date,
   reasoning     |-> "logistics: error in analysis",
   confidence    |-> fallback.confidence]

\* The invoke of the exported LLMLogisticsAgent: the call of the undefined
\* _extract_json_or_parse raises inside the try block whatever the LLM answered,
\* so every call ends in the except branch.
logistics_invoke(order, im, production_days, narrator) ==
  logistics_error_result(logistics_fallback(im, order, production_days))

----------------------------------------------------------------------------
(* agents/finance/tools.py and agents/finance/llm.py *)

\* production_policy.get('overtime_cost_per_hour', 45.0), in cents
OVERTIME_COST_PER_HOUR == 4500

\* base_cost_per_unit * material_cap_multiplier (1.08, 1.18, 1.30), in cents
material_cap(quantity) ==
  LET material_cap_multiplier ==
        IF quantity <= 100 THEN 108 ELSE IF quantity <= 1000 THEN 118 ELSE 130
  IN (finance_policy.base_cost_per_unit * material_cap_multiplier) \div 100

\* All per-unit amounts are kept multiplied by the quantity until the final round().
compute_unit_economics(quantity, material_cost_total, shipping_total, overtime_cost_total) ==
  LET n == Max(1, quantity)
      base_cost_per_unit == finance_policy.base_cost_per_unit
      normalized_material_times_n ==
        Min(Max(base_cost_per_unit * n, material_cost_total), material_cap(quantity) * n)
      unit_cost_times_n == normalized_material_times_n + shipping_total + overtime_cost_total
  IN [base_cost_per_unit |-> base_cost_per_unit,
      normalized_material_unit_cost |-> RoundDiv(normalized_material_times_n, n),
      unit_cost |-> RoundDiv(unit_cost_times_n, n)]

calculate_rush_surcharge(unit_cost, priority, requested_delivery_days, production_strategy) ==
  LET rush_rate == finance_policy.rush_surcharge_rate
      apply_surcharge ==
        /\ priority \in {"rush", "expedited", "critical"}
        /\ \/ requested_delivery_days <= 14
           \/ production_strategy \in {"preempt_and_overtime", "phased_split_delivery"}
      surcharge_amount == IF apply_surcharge THEN RoundDiv(unit_cost * rush_rate, 100) ELSE 0
  IN [applied |-> apply_surcharge,
      surcharge_amount   |-> surcharge_amount,
      adjusted_unit_cost |-> unit_cost + surcharge_amount]

negotiate_price(customer_profile, requested_price, minimum_viable_price) ==
  LET price_ceiling ==
        RoundDiv(requested_price * (100 + Get(customer_profile, "max_price_uplift", 20)), 100)
  IN [requested_price |-> requested_price,
      minimum_viable_price |-> minimum_viable_price,
      customer_price_ceiling |-> price_ceiling,
      within_customer_tolerance |-> minimum_viable_price <= price_ceiling]

compute_compromise(requested_price, minimum_viable_price, customer_price_ceiling) ==
  LET compromise_price == Min(customer_price_ceiling, Max(requested_price, minimum_viable_price))
  IN [compromise_price |-> compromise_price,
      fully_recovers_margin |-> compromise_price >= minimum_viable_price]

\* margin is a fraction in 1/10000; meets_floor compares the unrounded fraction.
verify_final_margin(final_price, unit_cost) ==
  [margin |-> IF final_price <= 0 THEN 0
              ELSE RoundDiv((final_price - unit_cost) * 10000, final_price),
   margin_floor |-> finance_policy.margin_floor,
   meets_floor  |-> IF final_price <= 0
                      THEN 0 >= finance_policy.margin_floor
                      ELSE (final_price - unit_cost) * 100
                           >= finance_policy.margin_floor * final_price]

\* LLMFinanceAgent._fallback from the minimum viable price on: negotiation,
\* compromise, final price and the margin floor.
finance_price_decision(order, customer_profile, margin, discount_rate, unit_cost, minimum_viable_price, tool_final_price) ==
  LET requested_price == OrElse(order.requested_price, 1000)
      negotiation == negotiate_price(customer_profile, requested_price, minimum_viable_price)
      compromise  == compute_compromise(requested_price, minimum_viable_price,
                                        OrElse(negotiation.customer_price_ceiling,
                                               requested_price))
      final_price  == Max(requested_price, compromise.compromise_price)
      margin_check == verify_final_margin(
                        IF tool_final_price = "requested_price" THEN requested_price
                        ELSE IF tool_final_price = "minimum_viable_price"
                          THEN minimum_viable_price
                          ELSE final_price,
                        unit_cost)
      can_proceed  == margin_check.meets_floor
  IN [can_proceed   |-> can_proceed,
      discount_rate |-> discount_rate,
      final_price   |-> final_price,
      minimum_viable_price |-> minimum_viable_price,
      unit_cost     |-> unit_cost,
      margin        |-> OrElse(margin_check.margin, margin * 100),
      reasoning     |-> "finance: minimum viable commercial price against the target",
      confidence    |-> IF can_proceed THEN 8400 ELSE 6600]

\* LLMFinanceAgent._fallback from the unit cost on.
finance_cost_decision(order, customer_profile, margin, discount_rate, unit_cost, tool_final_price) ==
  finance_price_decision(order, customer_profile, margin, discount_rate, unit_cost,
                         RoundDiv(unit_cost * (100 + margin) * (100 - discount_rate), 10000),
                         tool_final_price)

\* The margin _fallback targets: the floor for a small strategic order, raised
\* above the target when the round asks for revenue recovery.
finance_margin(quantity, customer_profile, negotiation_context) ==
  LET margin_floor == finance_policy.margin_floor
      margin0 == IF Get(customer_profile, "tier", "") = "strategic" /\ quantity <= 100
                   THEN margin_floor ELSE finance_policy.target_margin
  IN IF Get(negotiation_context, "revenue_goal_mode", "")
          \in {"premium_recovery", "margin_expansion"}
       THEN Max(margin0, finance_policy.target_margin + 2)
       ELSE margin0

\* rush.get('adjusted_unit_cost') or unit_economics.get('unit_cost') or 0.0
finance_unit_cost(order, unit_economics) ==
  OrElse(calculate_rush_surcharge(
           unit_economics.unit_cost, order.priority,
           OrElse(order.requested_delivery_days, 18),
           Get(order.negotiation_context, "production_strategy", "")).adjusted_unit_cost,
         OrElse(unit_economics.unit_cost, 0))

\* LLMFinanceAgent._fallback.  tool_final_price is the final_price argument of
\* the verify_final_margin result found in tool_results: "requested_price" when
\* the LLM had the order's requested price verified,
\* "minimum_viable_price" when it had the minimum viable price verified, "none"
\* when tool_results holds no such result (as in the first _fallback of invoke).
finance_fallback(order, procurement_result, production_result, logistics_result, tool_final_price) ==
  LET quantity == Max(1, OrElse(order.quantity, 1))
      material_cost_total ==
        OrElse(Get(procurement_result, "total_cost", Null),
               finance_policy.base_cost_per_unit * quantity)
      shipping_total == OrElse(Get(logistics_result, "shipping_cost", Null), 0)
      overtime_cost_total ==
        OrElse(Get(production_result, "overtime_hours", Null), 0) * OVERTIME_COST_PER_HOUR
      customer_profile == get_customer_profile(order.customer)
  IN finance_cost_decision(
       order, customer_profile,
       finance_margin(quantity, customer_profile, order.negotiation_context),
       get_volume_discount_rate(quantity),
       finance_unit_cost(order, compute_unit_economics(quantity, material_cost_total,
                                                       shipping_total, overtime_cost_total)),
       tool_final_price)

\* LLMFinanceAgent.invoke around the _fallback result.
finance_narrated(deterministic, narrator) ==
  IF narrator.kind = "error"
    THEN [deterministic EXCEPT !.reasoning = "finance: error in analysis"]
    ELSE [deterministic EXCEPT
            !.reasoning  = IF deterministic.can_proceed
                             THEN "finance: narrator text"
                             ELSE deterministic.reasoning,
            !.confidence = IF narrator.confidence = Null
                             THEN deterministic.confidence
                             ELSE narrator.confidence]

\* LLMFinanceAgent.invoke
finance_invoke(order, procurement_result, production_result, logistics_result, narrator) ==
  finance_narrated(finance_fallback(order, procurement_result, production_result,
                                    logistics_result,
                                    IF narrator.kind = "error" THEN "none"
                                    ELSE Get(narrator, "final_price", "none")),
                   narrator)

----------------------------------------------------------------------------
(* agents/sales/tools.py, agents/sales/llm.py and the invoke override of    *)
(* agents/sales/__init__.py                                                 *)

assess_deal_sensitivity(customer_profile, original_price, proposed_price, original_delivery_days, proposed_delivery_days) ==
  LET delivery_slip     == Max(0, proposed_delivery_days - original_delivery_days)
      acceptable_uplift == Get(customer_profile, "max_price_uplift", 20)
      acceptable_buffer == Get(customer_profile, "acceptable_delivery_buffer_days", 2)
  IN [delivery_slip_days |-> delivery_slip,
      within_price_tolerance |->
        IF original_price <= 0 THEN 0 <= acceptable_uplift
        ELSE (proposed_price - original_price) * 100 <= acceptable_uplift * original_price,
      within_delivery_tolerance |-> delivery_slip <= acceptable_buffer]

calculate_counter_offer(original_price, proposed_price, sensitivity) ==
  IF sensitivity.within_price_tolerance /\ sensitivity.within_delivery_tolerance
    THEN [counter_offer |-> proposed_price, customer_acceptance_likelihood |-> 9000]
    ELSE [counter_offer |-> IF ~sensitivity.within_price_tolerance
                              THEN RoundDiv(original_price * 125, 100)
                              ELSE proposed_price,
          customer_acceptance_likelihood |->
            IF sensitivity.within_delivery_tolerance THEN 6500 ELSE 5000]

\* LLMSalesAgent._fallback with no tool results.  A blocked price is the
\* smaller of the counter offer and the customer ceiling, to the cent.
sales_fallback(requested_price, proposed_price, customer_profile) ==
  LET sensitivity == assess_deal_sensitivity(customer_profile, requested_price,
                                             proposed_price, 18, 18)
      counter == calculate_counter_offer(requested_price, proposed_price, sensitivity)
      uplift  == Get(customer_profile, "max_price_uplift", 20)
      max_acceptable_times_100 == requested_price * uplift + requested_price * 100
      agreed_price == counter.counter_offer
      can_proceed  == /\ proposed_price * 100 <= max_acceptable_times_100
                      /\ counter.customer_acceptance_likelihood >= 7000
  IN [can_proceed  |-> can_proceed,
      agreed_price |-> IF can_proceed THEN agreed_price
                       ELSE RoundDiv(Min(agreed_price * 100, max_acceptable_times_100), 100),
      reasoning    |-> "sales: fallback customer acceptance model applied",
      confidence   |-> counter.customer_acceptance_likelihood]

\* The invoke of the exported LLMSalesAgent: the call of the undefined
\* _extract_json_or_parse raises inside the try block whatever the LLM answered,
\* so every call ends in the except branch.
sales_invoke(order, finance_result, logistics_result, narrator) ==
  LET requested_price  == OrElse(order.requested_price, 1000)
      proposed_price   == OrElse(Get(finance_result, "final_price", Null), requested_price)
      customer_profile == get_customer_profile(order.customer)
      fallback == sales_fallback(requested_price, proposed_price, customer_profile)
  IN [fallback EXCEPT !.reasoning = "sales: error in analysis"]

----------------------------------------------------------------------------
(* services.py: order construction and the process_order back ends *)

\* Elements of a sequence.
Range(seq) == {seq[i] : i \in 1..Len(seq)}

\* resolve_customer_location: no customer name of the model contains 'local'
\* or 'regional', and no payload carries an explicit customer_location.
resolve_customer_location(payload) == "national"

\* The negotiationContext keeps the numeric and strategy keys; its free-text
\* keys (round_goal, revenue_goal, strategy_notes, previous_rejection_reason)
\* only feed prompts and are left out.
build_synk_order(payload) ==
  LET quantity       == safe_int(Get(payload, "quantity", Null), 5000)
      requestedPrice == safe_float(Get(payload, "requestedPrice", Null), 1000)
      requestedDeliveryDays == safe_int(Get(payload, "requestedDeliveryDays", Null), 18)
      incoming_context == Get(payload, "negotiationContext", EmptyDict)
  IN [customer |-> Get(payload, "customer", "Acme Corp"),
      product  |-> Get(payload, "product", "PMP-STD-100"),
      quantity |-> quantity,
      requestedPrice |-> requestedPrice,
      requestedDeliveryDays |-> requestedDeliveryDays,
      priority |-> Get(payload, "priority", "rush"),
      customerLocation |-> resolve_customer_location(payload),
      negotiationContext |->
        [original_requested_price |->
           safe_float(Get(incoming_context, "original_requested_price", Null), requestedPrice),
         original_requested_delivery_days |->
           safe_int(Get(incoming_context, "original_requested_delivery_days", Null),
                    requestedDeliveryDays),
         original_quantity |->
           safe_int(Get(incoming_context, "original_quantity", Null), quantity),
         round_number |-> safe_int(Get(incoming_context, "round_number", Null), 1)]]

\* OrderRequest(...) of run_process_order_for_synk followed by
\* _build_live_order_dict / the 'order' of LLMManagerAgent.process_order.
build_live_order_dict(order) ==
  [product_sku |-> order.product,
   quantity    |-> Max(1, safe_int(order.quantity, 1)),
   customer_location |-> order.customerLocation,
   priority    |-> normalize_priority(order.priority),
   customer    |-> order.customer,
   requested_price |-> safe_float(order.requestedPrice, 1000),
   requested_delivery_days |-> safe_int(order.requestedDeliveryDays, 18),
   negotiation_context |-> order.negotiationContext]

\* A confidence that is only normalised, approving or not.
normalize_agent_confidence(agent_response, fallback) ==
  [agent_response EXCEPT !.confidence =
     normalize_confidence(Get(agent_response, "confidence", fallback), fallback)]

\* The confidence is rewritten to its normalised value; an approving gate
\* below 0.70 gets the fallback instead.
stabilize_agent_confidence(agent_response, fallback) ==
  LET normalized == normalize_confidence(Get(agent_response, "confidence", fallback), fallback)
  IN [agent_response EXCEPT !.confidence =
        IF Get(agent_response, "can_proceed", FALSE) /\ normalized < 7000
          THEN fallback ELSE normalized]

StabilizeFallback ==
  [g \in Gates |-> IF g = "procurement" THEN 8500
                   ELSE IF g \in {"production", "finance"} THEN 8200
                   ELSE 8000]

\* The reasoning of the first gate of the order that cannot proceed, None
\* (the empty string) when every gate can.
RECURSIVE FirstBlockerReasoning(_, _, _)
FirstBlockerReasoning(agent_responses, order, i) ==
  IF i > Len(order) THEN ""
  ELSE IF ~Get(Get(agent_responses, order[i], EmptyDict), "can_proceed", FALSE)
    THEN Get(Get(agent_responses, order[i], EmptyDict), "reasoning", "")
    ELSE FirstBlockerReasoning(agent_responses, order, i + 1)

\* The tail of run_live_agent_pipeline, after the five invokes.
run_live_agent_pipeline(order_request, results) ==
  LET agent_responses ==
        [g \in Gates |-> stabilize_agent_confidence(results[g], StabilizeFallback[g])]
      all_can_proceed ==
        \A i \in 1..Len(AGENT_IDS) : Get(agent_responses[AGENT_IDS[i]], "can_proceed", FALSE)
      confidences ==
        [g \in Gates |-> normalize_confidence(Get(agent_responses[g], "confidence", 0), 0)]
      \* avg >= MIN is compared as sum >= MIN * len(AGENT_IDS)
      consensus_reached ==
        all_can_proceed
        /\ SumOver(confidences, Gates) >= MIN_CONSENSUS_CONFIDENCE * Len(AGENT_IDS)
      final_price ==
        safe_float(Get(results["sales"], "agreed_price",
                       Get(results["finance"], "final_price", order_request.requested_price)),
                   order_request.requested_price)
      first_reasoning == FirstBlockerReasoning(agent_responses, AGENT_IDS, 1)
      rejection_reason ==
        IF first_reasoning = "" THEN "Consensus confidence threshold not met."
        ELSE first_reasoning
  IN [status |-> IF consensus_reached THEN "SUCCESS" ELSE "FAILURE",
      final_price   |-> final_price,
      total_deal_value |-> final_price * Max(1, order_request.quantity),
      delivery_date |-> Get(results["logistics"], "delivery_date", Null),
      profit_margin |-> safe_float(Get(results["finance"], "margin", 2200), 2200),
      consensus_reached |-> consensus_reached,
      message |-> IF consensus_reached THEN "" ELSE rejection_reason,
      agent_responses |-> agent_responses]

\* build_mock_process_order_response
build_mock_process_order_response(order_request) ==
  LET unit_price     == IF order_request.priority = "expedited" THEN 1080 ELSE 1040
      lead_time_days == IF order_request.priority = "expedited" THEN 14 ELSE 21
      mock(confidence) == [can_proceed |-> TRUE, reasoning |-> "Mock", confidence |-> confidence]
  IN [status |-> "SUCCESS",
      final_price   |-> unit_price,
      total_deal_value |-> unit_price * Max(1, order_request.quantity),
      delivery_date |-> lead_time_days,
      profit_margin |-> 2500,
      consensus_reached |-> TRUE,
      message |-> "",
      agent_responses |->
        [g \in Gates |->
           IF g = "procurement" THEN mock(9000)
           ELSE IF g = "production"
             THEN [can_proceed |-> TRUE, reasoning |-> "Mock", confidence |-> 8800,
                   production_days |-> lead_time_days - 3, overtime_hours |-> 4]
           ELSE IF g = "logistics"
             THEN [can_proceed |-> TRUE, reasoning |-> "Mock", confidence |-> 8700,
                   delivery_date |-> lead_time_days]
           ELSE IF g = "finance"
             THEN [can_proceed |-> TRUE, reasoning |-> "Mock", confidence |-> 8900,
                   margin |-> 2500, final_price |-> unit_price]
           ELSE [can_proceed |-> TRUE, reasoning |-> "Mock", confidence |-> 8600,
                 agreed_price |-> unit_price]]]

\* The response of run_process_order_for_synk when state.manager is None and
\* the mock flag is off.
manager_unavailable_response ==
  [status |-> "FAILURE",
   message |-> "LangGraph manager unavailable.",
   consensus_reached |-> FALSE,
   agent_responses |-> EmptyDict]

----------------------------------------------------------------------------
(* agents/runtime/manager.py: the consensus node and the final response *)

\* LLMManagerAgent._consensus_node: no stabilisation of the confidences.
manager_consensus_node(results) ==
  LET all_can_proceed ==
        \A i \in 1..Len(MANAGER_AGENT_ORDER) :
          Get(results[MANAGER_AGENT_ORDER[i]], "can_proceed", FALSE)
      confidences ==
        [g \in Gates |-> manager_normalize_confidence(Get(results[g], "confidence", 0), 0)]
  IN all_can_proceed /\ SumOver(confidences, Gates) >= MIN_CONSENSUS_CONFIDENCE * 5

\* LLMManagerAgent._generate_final_response
manager_generate_final_response(request, results, all_can_proceed) ==
  LET final_price ==
        OrElse(Get(results["sales"], "agreed_price", Null),
               OrElse(Get(results["finance"], "final_price", Null), 0))
      first_reasoning == FirstBlockerReasoning(results, MANAGER_AGENT_ORDER, 1)
      rejection_reason ==
        IF first_reasoning = "" THEN "Order cannot be processed. Consensus not reached."
        ELSE first_reasoning
  IN IF ~all_can_proceed
       THEN [status  |-> "FAILURE",
             message |-> rejection_reason,
             consensus_reached |-> FALSE,
             agent_responses   |-> results]
       ELSE [status |-> "SUCCESS",
             final_price   |-> final_price,
             total_deal_value |-> IF request.quantity > 0
                                    THEN final_price * request.quantity
                                    ELSE OrElse(Get(results["finance"], "total_deal_value",
                                                    Null), 0),
             delivery_date |-> Get(results["logistics"], "delivery_date", Null),
             profit_margin |-> Get(results["finance"], "margin", 2500),
             consensus_reached |-> TRUE,
             message |-> "",
             agent_responses |-> results]

----------------------------------------------------------------------------
(* services.py: round revision, round summary and final synthesis *)

\* Blockers counted among the gates that answered only.
get_blocking_agents_answered(process_response) ==
  LET agent_responses == Get(process_response, "agent_responses", EmptyDict)
  IN SelectSeq(AGENT_IDS,
               LAMBDA agent_id :
                 /\ agent_id \in DOMAIN agent_responses
                 /\ ~Get(agent_responses[agent_id], "can_proceed", FALSE))

\* [agent_id for agent_id in AGENT_IDS if not can_proceed]; a None response
\* has no agent_responses, so every gate is a blocker.
get_blocking_agents(process_response) ==
  LET agent_responses == Get(process_response, "agent_responses", EmptyDict)
  IN SelectSeq(AGENT_IDS,
               LAMBDA agent_id :
                 ~Get(Get(agent_responses, agent_id, EmptyDict), "can_proceed", FALSE))

procurement_feasible_quantity(order, live_result) ==
  LET requested_quantity    == Max(1, safe_int(order.quantity, 1))
      material_availability == Get(live_result, "material_availability", EmptyDict)
      counted == {m \in DOMAIN material_availability :
                    safe_float(material_availability[m].required, 0) > 0}
      feasible_quantities ==
        {TruncDiv(safe_float(material_availability[m].available, 0) * requested_quantity,
                  material_availability[m].required) : m \in counted}
  IN IF counted = {} THEN requested_quantity
     ELSE Max(0, Min(requested_quantity, SetMin(feasible_quantities)))

\* min(60, max(1, days between today and delivery_date)), None without a date.
extract_delivery_days_from_process_response(process_response) ==
  LET delivery_date == Get(process_response, "delivery_date", Null)
  IN IF delivery_date = Null THEN Null ELSE Min(60, Max(1, delivery_date))

\* An order that forgets its anchors: they are read from the order itself.
original_anchors_from_order(previous_order) ==
  [original_price    |-> safe_float(previous_order.requestedPrice, 1000),
   original_days     |-> safe_int(previous_order.requestedDeliveryDays, 18),
   original_quantity |-> safe_int(previous_order.quantity, 1)]

\* original_price, original_days and original_quantity of derive_revised_order:
\* the anchors of the previous context, the previous order's own values
\* when the context has none.
original_anchors(previous_order) ==
  LET previous_context == previous_order.negotiationContext
  IN [original_price |->
        safe_float(Get(previous_context, "original_requested_price", Null),
                   safe_float(previous_order.requestedPrice, 1000)),
      original_days |->
        safe_int(Get(previous_context, "original_requested_delivery_days", Null),
                 safe_int(previous_order.requestedDeliveryDays, 18)),
      original_quantity |->
        safe_int(Get(previous_context, "original_quantity", Null),
                 safe_int(previous_order.quantity, 1))]

\* A ceiling that keeps only the uplift: original_price * max_price_uplift.
max_customer_price_uplift_only(original_price, customer_profile) ==
  RoundDiv(original_price * Get(customer_profile, "max_price_uplift", 20), 100)

\* max_customer_price = round(original_price * (1 + max_price_uplift), 2)
max_customer_price_of(original_price, customer_profile) ==
  RoundDiv(original_price * (100 + Get(customer_profile, "max_price_uplift", 20)), 100)

\* A buffer-less variant: the primary lead time alone.
primary_lead_without_buffer(im) ==
  IF im.loaded THEN procurement_policy.primary_lead_time_days ELSE 10

\* primary_lead_with_buffer = primary_lead_time_days + 2, 12 without a store
primary_lead_with_buffer_of(im) ==
  IF im.loaded THEN procurement_policy.primary_lead_time_days + 2 ELSE 12

\* A sales block that leaves the target price as it is.
keep_target_price(target_price, max_customer_price) == target_price

\* min(target_price, max_customer_price) of the sales branches; the target
\* is in 1/100 cent, the ceiling in cents.
cap_at_customer_price(target_price, max_customer_price) ==
  Min(target_price, max_customer_price * 100)

\* A floor that forgets the finance gate: the price the previous order asked.
finance_floor_from_order(finance_result, previous_order, original_price) ==
  safe_float(previous_order.requestedPrice, original_price)

\* finance_floor: the final_price of the finance gate, the price of the
\* previous order when the gate reported none.
finance_floor_of(finance_result, previous_order, original_price) ==
  safe_float(Get(finance_result, "final_price", Null),
             safe_float(previous_order.requestedPrice, original_price))

\* Prices are compared in 1/100 cent so that the factors 1.05, 1.08 and 1.10
\* stay exact; round(target_price, 2) is the final RoundDiv.
derive_revised_order(previous_order, process_response, round_number, im) ==
  LET previous_context == previous_order.negotiationContext
      original_price    == original_anchors(previous_order).original_price
      original_days     == original_anchors(previous_order).original_days
      original_quantity == original_anchors(previous_order).original_quantity
      blockers == Range(get_blocking_agents(process_response))
      agent_responses    == Get(process_response, "agent_responses", EmptyDict)
      procurement_result == Get(agent_responses, "procurement", EmptyDict)
      production_result  == Get(agent_responses, "production", EmptyDict)
      logistics_result   == Get(agent_responses, "logistics", EmptyDict)
      finance_result     == Get(agent_responses, "finance", EmptyDict)
      production_days ==
        safe_int(Get(production_result, "production_days", Null),
                 safe_int(previous_order.requestedDeliveryDays, original_days))
      extracted == extract_delivery_days_from_process_response(
                     [delivery_date |-> Get(logistics_result, "delivery_date", Null)])
      logistics_days == IF extracted = Null THEN Max(1, production_days + 2) ELSE extracted
      finance_floor == finance_floor_of(finance_result, previous_order, original_price)
      requested_price    == safe_float(previous_order.requestedPrice, original_price)
      requested_days     == safe_int(previous_order.requestedDeliveryDays, original_days)
      requested_quantity == safe_int(previous_order.quantity, original_quantity)
      feasible_quantity  == Max(0, procurement_feasible_quantity(previous_order,
                                                                procurement_result))
      customer_profile == IF im.loaded THEN get_customer_profile(previous_order.customer)
                          ELSE EmptyDict
      delivery_buffer  == Get(customer_profile, "acceptable_delivery_buffer_days", 2)
      max_customer_price == max_customer_price_of(original_price, customer_profile)
      primary_lead_with_buffer == primary_lead_with_buffer_of(im)
      days0  == Max(requested_days, Max(production_days, logistics_days))
      price0 == requested_price * 100
      \* round 2
      ops_blocked == "production" \in blockers \/ "logistics" \in blockers
      days2a  == IF "procurement" \in blockers THEN Max(days0, primary_lead_with_buffer)
                 ELSE days0
      days2b  == IF ops_blocked
                   THEN Max(original_days, Min(days2a, Max(production_days, logistics_days)))
                   ELSE days2a
      price2b == IF ops_blocked
                   THEN Max(price0, Max(finance_floor * 105, original_price * 108))
                   ELSE price0
      price2c == IF "finance" \in blockers
                   THEN Max(price2b, Max(finance_floor * 100, original_price * 105))
                   ELSE price2b
      price2d == IF "sales" \in blockers
                   THEN cap_at_customer_price(Max(price2c, finance_floor * 100), max_customer_price)
                   ELSE price2c
      days2d  == IF "sales" \in blockers THEN Max(days2b, original_days + delivery_buffer)
                 ELSE days2b
      mode2   == IF ops_blocked THEN "premium_recovery"
                 ELSE IF "finance" \in blockers THEN "floor_recovery" ELSE "baseline"
      \* round 3
      days3a  == Max(days0, Max(original_days + Max(3, delivery_buffer + 1),
                                production_days + 2))
      price3a == Max(price0, Max(finance_floor * 108, original_price * 110))
      quantity3 == IF "procurement" \in blockers /\ feasible_quantity > 0
                     THEN Min(requested_quantity, feasible_quantity)
                     ELSE requested_quantity
      days3b  == IF "production" \in blockers THEN Max(days3a, production_days + 3)
                 ELSE days3a
      price3c == IF "sales" \in blockers THEN cap_at_customer_price(price3a, max_customer_price)
                 ELSE price3a
      days3c  == IF "sales" \in blockers
                   THEN Max(days3b, original_days + delivery_buffer + 1)
                   ELSE days3b
      second  == round_number = 2
      target_price    == IF second THEN price2d ELSE price3c
      target_days     == IF second THEN days2d ELSE days3c
      target_quantity == IF second THEN requested_quantity ELSE quantity3
      priority == IF second
                    THEN (IF ops_blocked THEN "critical" ELSE previous_order.priority)
                    ELSE "critical"
      production_strategy ==
        IF second THEN (IF ops_blocked THEN "preempt_and_overtime" ELSE "baseline")
        ELSE "phased_split_delivery"
      revenue_goal_mode == IF second THEN mode2 ELSE "margin_expansion"
  IN [previous_order EXCEPT
        !.quantity = Max(1, target_quantity),
        !.requestedPrice = RoundDiv(target_price, 100),
        !.requestedDeliveryDays = target_days,
        !.priority = priority,
        !.negotiationContext =
          [original_requested_price |-> original_price,
           original_requested_delivery_days |-> original_days,
           original_quantity |-> original_quantity,
           round_number |-> round_number,
           revenue_goal_mode |-> revenue_goal_mode,
           production_strategy |-> production_strategy,
           blocking_agents |-> get_blocking_agents(process_response),
           customer_price_ceiling |-> max_customer_price]]

\* build_actual_round_summary: the presentation metrics of the proposals are
\* left out; converged is what apply_live_agent_results_to_round stores.
build_actual_round_summary(order, round_number, process_response) ==
  LET live_agent_responses == Get(process_response, "agent_responses", EmptyDict)
      live_found == DOMAIN live_agent_responses # {}
      all_live_approved ==
        \A g \in DOMAIN live_agent_responses :
          Get(live_agent_responses[g], "can_proceed", FALSE)
  IN [round |-> round_number,
      converged |-> IF live_found
                      THEN Get(process_response, "consensus_reached", all_live_approved)
                      ELSE FALSE,
      order_context |-> order]

\* round_has_consensus of the orchestrate loop
round_has_consensus(round_summary, process_response) ==
  \/ round_summary.converged
  \/ Get(process_response, "consensus_reached", FALSE)
  \/ Get(process_response, "status", "") = "SUCCESS"

\* synthesize_consensus; finalPrice is None when it would come from the
\* presentation metrics of the round summary.
synthesize_consensus(order, rounds, process_response) ==
  LET final_round == rounds[Len(rounds)]
      has_response == process_response # EmptyDict
      approved == IF has_response
                    THEN Get(process_response, "consensus_reached", final_round.converged)
                    ELSE final_round.converged
      message  == Get(process_response, "message", "")
      procurement_reasoning ==
        Get(Get(Get(process_response, "agent_responses", EmptyDict),
                "procurement", EmptyDict), "reasoning", "")
  IN [approved   |-> approved,
      finalPrice |-> IF has_response THEN Get(process_response, "final_price", Null)
                     ELSE Null,
      finalDeliveryDays |->
        IF has_response THEN extract_delivery_days_from_process_response(process_response)
        ELSE Null,
      rejectionReason |->
        IF has_response /\ ~approved
          THEN (IF message # "" THEN message ELSE procurement_reasoning)
          ELSE "",
      rounds   |-> Len(rounds),
      quantity |-> safe_int(order.quantity, 5000)]

----------------------------------------------------------------------------
(* Inputs: policy store contents, deployments, payloads, narrator answers *)

BomOfKnownSku == [m \in {"M1", "M2"} |-> IF m = "M1" THEN 2 ELSE 1]

UnitCosts == [m \in {"M1", "M2"} |-> IF m = "M1" THEN 300 ELSE 150]

Store(stock, suppliers, strategy_profiles, lines, carrier_networks) ==
  [loaded    |-> TRUE,
   materials |-> [sku \in {"PMP-STD-100"} |-> BomOfKnownSku],
   stock     |-> stock,
   unit_cost |-> UnitCosts,
   suppliers |-> suppliers,
   strategy_profiles |-> strategy_profiles,
   lines     |-> lines,
   carrier_networks |-> carrier_networks]

AmpleStock == [m \in {"M1", "M2"} |-> IF m = "M1" THEN 20000 ELSE 10000]

ShortStock == [m \in {"M1", "M2"} |-> IF m = "M1" THEN 4000 ELSE 5000]

\* One material is out of stock.
DepletedStock == [m \in {"M1", "M2"} |-> IF m = "M1" THEN 0 ELSE 5000]

ConfiguredSuppliers ==
  [name \in {"ChemCorp Asia", "EuroChem GmbH"} |->
     IF name = "ChemCorp Asia"
       THEN [lead_time_days |-> 10,
             materials |-> [m \in {"M1", "M2"} |->
                              [available |-> 8000, price_multiplier |-> 110]]]
       ELSE [lead_time_days |-> 14,
             materials |-> [m \in {"M1", "M2"} |->
                              [available |-> 8000, price_multiplier |-> 125]]]]

ConfiguredProfiles ==
  [name \in {"baseline", "preempt_and_overtime", "phased_split_delivery"} |->
     IF name = "baseline"
       THEN [capacity_multiplier |-> 100, changeover_penalty_days |-> 0,
             default_overtime_hours |-> 0]
     ELSE IF name = "preempt_and_overtime"
       THEN [capacity_multiplier |-> 130, changeover_penalty_days |-> 1,
             default_overtime_hours |-> 2]
       ELSE [capacity_multiplier |-> 115, changeover_penalty_days |-> 0,
             default_overtime_hours |-> 1]]

ConfiguredLines ==
  << [weekly_capacity |-> 3000, current_load |-> 50, supported_skus |-> {"PMP-STD-100"}],
     [weekly_capacity |-> 2000, current_load |-> 20, supported_skus |-> {"PMP-STD-100"}] >>

ConfiguredCarriers ==
  [mode \in {"ground", "air"} |->
     IF mode = "ground"
       THEN << [supported_locations |-> {"national", "regional"}, max_units |-> 10000,
                fixed_fee |-> 25000, reliability |-> 95],
               [supported_locations |-> {"national"}, max_units |-> 10000,
                fixed_fee |-> 10000, reliability |-> 90] >>
       ELSE << [supported_locations |-> {"national"}, max_units |-> 6000,
                fixed_fee |-> 90000, reliability |-> 98] >>]

\* Scenario A: the SKU takes 2 kg of M1 at 3.00 per kg, 10,000 kg in stock,
\* and ground freight has one carrier without a fixed fee.
ScenarioACarriers ==
  [mode \in {"ground"} |->
     << [supported_locations |-> {"national"}, max_units |-> 10000,
         fixed_fee |-> 0, reliability |-> 90] >>]

ScenarioAStore ==
  [Store([m \in {"M1"} |-> 10000], EmptyDict, EmptyDict, << >>, ScenarioACarriers)
     EXCEPT !.materials = [sku \in {"PMP-STD-100"} |-> [m \in {"M1"} |-> 2]],
            !.unit_cost = [m \in {"M1"} |-> 300]]

\* A suppliers.json whose primary supplier quotes 12 days while
\* procurement.json keeps primary_lead_time_days = 10.
DelayedSuppliers ==
  [ConfiguredSuppliers EXCEPT !["ChemCorp Asia"].lead_time_days = 12]

\* state.inventory_manager is None when InventoryManager(...) raised at import.
NoInventoryManager == [loaded |-> FALSE]

Stores ==
  { Store(AmpleStock, EmptyDict, EmptyDict, << >>, EmptyDict),
    Store(ShortStock, EmptyDict, EmptyDict, << >>, EmptyDict),
    Store(DepletedStock, EmptyDict, EmptyDict, << >>, EmptyDict),
    Store(ShortStock, ConfiguredSuppliers, EmptyDict, << >>, EmptyDict),
    Store(ShortStock, ConfiguredSuppliers, EmptyDict, << >>, ConfiguredCarriers),
    Store(AmpleStock, EmptyDict, ConfiguredProfiles, ConfiguredLines, ConfiguredCarriers),
    ScenarioAStore }

\* "live": mock flag on and the five agents built (run_live_agent_pipeline);
\* "mock": mock flag on, agents missing; "manager": LangGraph manager;
\* "no_manager": mock flag off and state.manager is None.
BackendModes == {"live", "mock", "manager", "no_manager"}

\* The deployments explored: a back end with the store it runs on.
Deployments ==
  ({"live"} \X Stores)
  \cup ({"manager"} \X {Store(AmpleStock, EmptyDict, EmptyDict, << >>, EmptyDict),
                        Store(ShortStock, EmptyDict, EmptyDict, << >>, EmptyDict),
                        ScenarioAStore})
  \cup ({"mock", "no_manager"}
        \X {Store(AmpleStock, EmptyDict, EmptyDict, << >>, EmptyDict), NoInventoryManager})

\* A payload is the JSON object of the request; an absent key is absent.
Payload(customer, quantity, price, days, priority) ==
  [k \in ({"customer", "priority"}
          \cup (IF quantity = Null THEN {} ELSE {"quantity"})
          \cup (IF price = Null THEN {} ELSE {"requestedPrice"})
          \cup (IF days = Null THEN {} ELSE {"requestedDeliveryDays"})) |->
     IF k = "customer" THEN customer
     ELSE IF k = "priority" THEN priority
     ELSE IF k = "quantity" THEN quantity
     ELSE IF k = "requestedPrice" THEN price
     ELSE days]

WithContext(payload, context) ==
  [k \in DOMAIN payload \cup {"negotiationContext"} |->
     IF k = "negotiationContext" THEN context ELSE payload[k]]

PayloadQuantities == {0, 100, 5000}

PayloadPrices == {Null, 500, 700}

PayloadDays == {Null, 8}

PayloadCustomers == {"Acme Corp", "Globex"}

PlainPayloads ==
  {Payload(c, q, p, d, "rush") :
     c \in PayloadCustomers, q \in PayloadQuantities, p \in PayloadPrices, d \in PayloadDays}

\* Payloads that arrive with their own negotiationContext anchors.
AnchoredPayloads ==
  { WithContext(Payload("Globex", 5000, 1000, 8, "standard"),
                [original_requested_price |-> 500]),
    WithContext(Payload("Acme Corp", 3000, 700, Null, "rush"),
                [original_requested_price |-> 900, original_quantity |-> 2000,
                 original_requested_delivery_days |-> 10]) }

\* Scenario A: 100 units at 12.00 in 18 days, normal priority.
ScenarioAPayload == Payload("Globex", 100, 1200, 18, "normal")

\* Scenario B: a rush order above stock whose days fit no supplier lead time.
ScenarioPayloads ==
  { ScenarioAPayload, Payload("Acme Corp", 5000, 1200, 8, "rush") }

Payloads == PlainPayloads \cup AnchoredPayloads \cup ScenarioPayloads

NarratorConfidences == {5000, 850000}

\* What the procurement LLM can answer.
Narrators ==
  {NarratorError} \cup {NarratorStructured(c, "none") : c \in NarratorConfidences}
  \cup {NarratorQuerying(5000, procurement_policy.alternate_supplier)}

\* The production LLM can also call the planning tools with its own strategy.
ProductionNarrators ==
  {NarratorError, NarratorStructured(5000, "none"),
   NarratorStructured(8500, "preempt_and_overtime")}

\* What the finance LLM can answer.
FinanceNarrators == {NarratorError, NarratorStructured(5000, "none")}

\* The finance LLM can also have a price of its choice verified against the
\* margin floor.
FinanceToolNarrators ==
  {NarratorError, NarratorVerifying("requested_price"),
   NarratorVerifying("minimum_viable_price")}

----------------------------------------------------------------------------
(* routes/negotiation.py: the orchestrate generator as a state machine *)

VARIABLES
  inventory_manager,  \* state.inventory_manager
  backend_mode,       \* which back end run_process_order_for_synk reaches
  order_payload,      \* the parsed request payload
  pc,                 \* position of the generator
  round_number,       \* the loop variable of "for round_number in [1, 2, 3]"
  current_order,      \* current_order
  agent_results,      \* the results of the gates invoked so far in this round
  process_response,   \* process_response of this round ({} stands for None)
  rounds,             \* rounds
  round_responses,    \* round_responses, each reduced to the keys read later
  consensus_payload   \* consensus_payload ({} before the synthesis)

vars == <<inventory_manager, backend_mode, order_payload, pc, round_number,
          current_order, agent_results, process_response, rounds,
          round_responses, consensus_payload>>

\* The rounds of the loop: [1, 2, 3]
LAST_ROUND == 3

NoResults == [g \in Gates |-> EmptyDict]

\* The gates see the order through OrderRequest.
order_request == build_live_order_dict(current_order)

EvaluatingPcs == {"procurement", "production", "logistics", "finance", "sales", "consensus"}

\* A recorded response keeps what derive_revised_order and
\* synthesize_consensus read; confidences and gate reasonings are not read again.
recorded_response(response) ==
  [k \in DOMAIN response |->
     IF k = "agent_responses"
       THEN [g \in DOMAIN response.agent_responses |->
               [f \in DOMAIN response.agent_responses[g] \ {"confidence", "reasoning"} |->
                  response.agent_responses[g][f]]]
       ELSE response[k]]

InitOn(deployments) ==
  /\ \E deployment \in deployments :
       /\ backend_mode = deployment[1]
       /\ inventory_manager = deployment[2]
  /\ order_payload \in Payloads
  /\ pc = "round_start"
  /\ round_number = 1
  /\ current_order = build_synk_order(order_payload)
  /\ agent_results = NoResults
  /\ process_response = EmptyDict
  /\ rounds = << >>
  /\ round_responses = << >>
  /\ consensus_payload = EmptyDict

Init == InitOn(Deployments)

\* Top of the loop body: rounds 2 and 3 first revise the order.
BeginRound ==
  /\ pc = "round_start"
  /\ current_order' =
       IF round_number > 1
         THEN derive_revised_order(current_order, round_responses[Len(round_responses)],
                                   round_number, inventory_manager)
         ELSE current_order
  /\ pc' = "process"
  /\ UNCHANGED <<inventory_manager, backend_mode, order_payload, round_number,
                 agent_results, process_response, rounds, round_responses,
                 consensus_payload>>

\* run_process_order_for_synk, mock flag on and agents missing.
MockProcessOrder ==
  /\ pc = "process"
  /\ backend_mode = "mock"
  /\ process_response' = build_mock_process_order_response(order_request)
  /\ pc' = "summary"
  /\ UNCHANGED <<inventory_manager, backend_mode, order_payload, round_number,
                 current_order, agent_results, rounds, round_responses,
                 consensus_payload>>

\* run_process_order_for_synk, mock flag off and no manager.
ManagerUnavailable ==
  /\ pc = "process"
  /\ backend_mode = "no_manager"
  /\ process_response' = manager_unavailable_response
  /\ pc' = "summary"
  /\ UNCHANGED <<inventory_manager, backend_mode, order_payload, round_number,
                 current_order, agent_results, rounds, round_responses,
                 consensus_payload>>

\* Entry of the live pipeline or of the manager graph.
StartAgents ==
  /\ pc = "process"
  /\ backend_mode \in {"live", "manager"}
  /\ pc' = "procurement"
  /\ UNCHANGED <<inventory_manager, backend_mode, order_payload, round_number,
                 current_order, agent_results, process_response, rounds,
                 round_responses, consensus_payload>>

\* A store that books what the procurement gate reserved: the stock of each
\* material goes down by what the order takes from it.
store_after_gate_reserving(im, gate, result) ==
  IF gate = "procurement" /\ result.can_proceed
    THEN [im EXCEPT !.stock =
            [m \in DOMAIN im.stock |->
               IF m \in DOMAIN result.material_availability
                 THEN im.stock[m] - Min(im.stock[m], result.material_availability[m].required)
                 ELSE im.stock[m]]]
    ELSE im

\* The policy store after a gate has run.  The tools of the gates
\* (reserve_materials, submit_purchase_order, lock_production_schedule,
\* book_carrier, ...) build and return new dicts; none assigns to the
\* InventoryManager or to the lists and dicts it holds.
store_after_gate(im, gate, result) == im

GateStep(gate, result, next_pc) ==
  /\ pc = gate
  /\ agent_results' = [agent_results EXCEPT ![gate] = result]
  /\ inventory_manager' = store_after_gate(inventory_manager, gate, result)
  /\ pc' = next_pc
  /\ UNCHANGED <<backend_mode, order_payload, round_number,
                 current_order, process_response, rounds, round_responses,
                 consensus_payload>>

ProcurementStep ==
  \E narrator \in Narrators :
    GateStep("procurement",
             procurement_invoke(order_request, inventory_manager, narrator),
             "production")

ProductionStep ==
  \E narrator \in ProductionNarrators :
    GateStep("production",
             production_invoke(order_request, inventory_manager, narrator),
             "logistics")

\* production_days: int(production_result.get('production_days') or 14)
LogisticsStep ==
  GateStep("logistics",
           logistics_invoke(order_request, inventory_manager,
                            OrElse(Get(agent_results["production"], "production_days", Null), 14),
                            NarratorError),
           "finance")

FinanceStepWith(narrators) ==
  \E narrator \in narrators :
    GateStep("finance",
             finance_invoke(order_request, agent_results["procurement"],
                            agent_results["production"], agent_results["logistics"],
                            narrator),
             "sales")

FinanceStep == FinanceStepWith(FinanceNarrators)

\* The finance gate with an LLM that passes its own final_price to
\* verify_final_margin.
FinanceToolStep == FinanceStepWith(FinanceToolNarrators)

SalesStep ==
  GateStep("sales",
           sales_invoke(order_request, agent_results["finance"],
                        agent_results["logistics"], NarratorError),
           "consensus")

\* The tail of run_live_agent_pipeline.
LiveConsensus ==
  /\ pc = "consensus"
  /\ backend_mode = "live"
  /\ process_response' = run_live_agent_pipeline(order_request, agent_results)
  /\ pc' = "summary"
  /\ UNCHANGED <<inventory_manager, backend_mode, order_payload, round_number,
                 current_order, agent_results, rounds, round_responses,
                 consensus_payload>>

\* The consensus node of the manager graph and _generate_final_response.
ManagerConsensus ==
  /\ pc = "consensus"
  /\ backend_mode = "manager"
  /\ process_response' =
       manager_generate_final_response(order_request, agent_results,
                                       manager_consensus_node(agent_results))
  /\ pc' = "summary"
  /\ UNCHANGED <<inventory_manager, backend_mode, order_payload, round_number,
                 current_order, agent_results, rounds, round_responses,
                 consensus_payload>>

\* run_process_order_for_synk raised: the except branch sets process_response = None.
ProcessOrderFails ==
  /\ pc \in EvaluatingPcs
  /\ process_response' = EmptyDict
  /\ agent_results' = NoResults
  /\ pc' = "summary"
  /\ UNCHANGED <<inventory_manager, backend_mode, order_payload, round_number,
                 current_order, rounds, round_responses, consensus_payload>>

\* From build_actual_round_summary to the bottom of the loop body: the round
\* is recorded, and the loop is left on consensus or after the last round.
FinishRound(stop_on_consensus, last_round) ==
  /\ pc = "summary"
  /\ LET summary == build_actual_round_summary(current_order, round_number, process_response)
         has_consensus == round_has_consensus(summary, process_response)
     IN /\ rounds' = Append(rounds, [summary EXCEPT !.converged = has_consensus])
        /\ round_responses' = Append(round_responses, recorded_response(process_response))
        /\ IF (stop_on_consensus /\ has_consensus) \/ round_number = last_round
             THEN /\ pc' = "consensus_phase"
                  /\ round_number' = round_number
             ELSE /\ pc' = "round_start"
                  /\ round_number' = round_number + 1
  /\ agent_results' = NoResults
  /\ process_response' = EmptyDict
  /\ UNCHANGED <<inventory_manager, backend_mode, order_payload, current_order,
                 consensus_payload>>

\* Variants of the loop exit used to test the round claims: a loop over
\* [1, 2, 3, 4], a loop without the break, and a loop over [1, 2].
CompleteRound_FourRounds == FinishRound(TRUE, LAST_ROUND + 1)

CompleteRound_NoBreak == FinishRound(FALSE, LAST_ROUND)

CompleteRound_TwoRounds == FinishRound(TRUE, LAST_ROUND - 1)

\* for round_number in [1, 2, 3] with "if round_has_consensus: break".
CompleteRound == FinishRound(TRUE, LAST_ROUND)

\* After the loop: synthesize_consensus on the last round, then 'done'.
SynthesizeConsensus ==
  /\ pc = "consensus_phase"
  /\ consensus_payload' =
       synthesize_consensus(rounds[Len(rounds)].order_context, rounds,
                            round_responses[Len(round_responses)])
  /\ pc' = "done"
  /\ UNCHANGED <<inventory_manager, backend_mode, order_payload, round_number,
                 current_order, agent_results, process_response, rounds,
                 round_responses>>

Next ==
  \/ BeginRound
  \/ MockProcessOrder
  \/ ManagerUnavailable
  \/ StartAgents
  \/ ProcessOrderFails
  \/ ProcurementStep
  \/ ProductionStep
  \/ LogisticsStep
  \/ FinanceStep
  \/ SalesStep
  \/ LiveConsensus
  \/ ManagerConsensus
  \/ CompleteRound
  \/ SynthesizeConsensus

Spec == Init /\ [][Next]_vars

\* The live pipeline with a finance LLM that uses the arguments of its tools.
ToolInit == Init /\ backend_mode = "live"

ToolNext ==
  \/ BeginRound
  \/ StartAgents
  \/ ProcessOrderFails
  \/ ProcurementStep
  \/ ProductionStep
  \/ LogisticsStep
  \/ FinanceToolStep
  \/ SalesStep
  \/ LiveConsensus
  \/ CompleteRound
  \/ SynthesizeConsensus

ToolSpec == ToolInit /\ [][ToolNext]_vars

\* The live pipeline on a store whose supplier catalog and procurement policy
\* were edited apart.
CatalogInit ==
  InitOn({<<"live", Store(ShortStock, DelayedSuppliers, EmptyDict, << >>, ConfiguredCarriers)>>})

CatalogSpec == CatalogInit /\ [][ToolNext]_vars

\* The generator is driven to completion by the response stream: it has no
\* blocking wait, so a step that can be taken is taken.
FairSpec == Init /\ [][Next]_vars /\ WF_vars(Next)

----------------------------------------------------------------------------
(* The round loop: claims C1 to C3 *)

\* C1: the loop evaluates at most 3 rounds for any order and any sequence
\* of gate verdicts, rounds whose evaluation raised included, and every run
\* reaches the final consensus synthesis (pc = "done").
C1_AtMostThreeRoundsThenDone ==
  /\ [](Len(rounds) <= 3 /\ round_number \in 1..3)
  /\ <>(pc = "done")

\* A negotiation of three rounds, one of which raised, that reached 'done'.
C1_Witness ==
  /\ pc = "done"
  /\ Len(rounds) = 3
  /\ \E i \in 1..3 : round_responses[i] = EmptyDict
  /\ \A i \in 1..3 : ~rounds[i].converged

\* C2: once round n reaches consensus no later round is evaluated and the
\* order is not revised again: a converged round is the last round, the loop
\* has been left with the order of that round, and the decision is approved.
C2_ConsensusEndsNegotiation ==
  \A i \in 1..Len(rounds) :
    rounds[i].converged =>
      /\ i = Len(rounds)
      /\ round_number = i
      /\ pc \in {"consensus_phase", "done"}
      /\ current_order = rounds[i].order_context
      /\ pc = "done" => consensus_payload.approved

\* A live negotiation approved in its second round.
C2_Witness ==
  /\ pc = "done"
  /\ backend_mode = "live"
  /\ Len(rounds) = 2
  /\ ~rounds[1].converged
  /\ rounds[2].converged
  /\ consensus_payload.approved

\* C3: a failed round 3 ends the negotiation rejected with no further round;
\* the decision is approved exactly when the last executed round reached
\* consensus, and a rejection comes only after exactly 3 executed rounds.
C3_FinalDecision ==
  pc = "done" =>
    /\ consensus_payload.approved <=> rounds[Len(rounds)].converged
    /\ consensus_payload.rounds = Len(rounds)
    /\ ~consensus_payload.approved => (Len(rounds) = 3 /\ round_number = 3)
    /\ Len(rounds) <= 3

\* A live negotiation rejected after a third round in which a gate blocked.
C3_Witness ==
  /\ pc = "done"
  /\ backend_mode = "live"
  /\ Len(rounds) = 3
  /\ round_responses[3] # EmptyDict
  /\ ~rounds[3].converged
  /\ ~consensus_payload.approved

----------------------------------------------------------------------------
(* The consensus step: claims C4 to C7 *)

\* A round whose five gates were evaluated and whose response is at hand:
\* agent_results holds the five verdicts as the gates returned them.
Evaluated ==
  /\ pc = "summary"
  /\ backend_mode \in {"live", "manager"}
  /\ process_response # EmptyDict

VerdictsAllApprove ==
  \A g \in Gates : Get(agent_results[g], "can_proceed", FALSE)

\* mean of the five normalized confidences >= 0.70, as a comparison of sums
VerdictsMeanAtLeastThreshold ==
  SumOver([g \in Gates |->
             normalize_confidence(Get(agent_results[g], "confidence", 0), 0)], Gates)
    >= MIN_CONSENSUS_CONFIDENCE * Cardinality(Gates)

\* C4: the consensus step returns consensus_reached = true exactly when all
\* five verdicts approve and the mean of their normalized confidences is at
\* least 0.70; status is SUCCESS exactly then, so five approvals with a mean
\* below 0.70 give consensus_reached = false and FAILURE.
C4_ConsensusIffApprovalsAndMean ==
  Evaluated =>
    /\ process_response.consensus_reached
         <=> (VerdictsAllApprove /\ VerdictsMeanAtLeastThreshold)
    /\ process_response.status
         = (IF VerdictsAllApprove /\ VerdictsMeanAtLeastThreshold
              THEN "SUCCESS" ELSE "FAILURE")

\* C5: five approvals with an average confidence below the threshold give,
\* in the live pipeline and in the manager alike, a FAILURE with
\* consensus_reached = false and the rejection reason "Consensus confidence
\* threshold not met." (compared here with the capital of the source).
C5_LowConfidenceRejectionReason ==
  (Evaluated /\ VerdictsAllApprove /\ ~VerdictsMeanAtLeastThreshold) =>
    /\ process_response.status = "FAILURE"
    /\ ~process_response.consensus_reached
    /\ process_response.message = "Consensus confidence threshold not met."

\* The fixed order in which the rejection reason is looked up.
FixedGateOrder == <<"procurement", "production", "logistics", "finance", "sales">>

\* C6: on a failed consensus with at least one blocking gate the rejection
\* reason is the reasoning of the first blocking gate in the order
\* procurement, production, logistics, finance, sales.
C6_FirstBlockerInFixedOrder ==
  (Evaluated /\ ~process_response.consensus_reached /\ ~VerdictsAllApprove) =>
    process_response.message = FirstBlockerReasoning(agent_results, FixedGateOrder, 1)

\* The five verdicts of the current order when every narrator call fails.
NarratorErrorResults ==
  LET procurement == procurement_invoke(order_request, inventory_manager, NarratorError)
      production  == production_invoke(order_request, inventory_manager, NarratorError)
      logistics   ==
        logistics_invoke(order_request, inventory_manager,
                         OrElse(Get(production, "production_days", Null), 14),
                         NarratorError)
      finance == finance_invoke(order_request, procurement, production, logistics,
                                NarratorError)
      sales   == sales_invoke(order_request, finance, logistics, NarratorError)
  IN [g \in Gates |->
        IF g = "procurement" THEN procurement
        ELSE IF g = "production" THEN production
        ELSE IF g = "logistics" THEN logistics
        ELSE IF g = "finance" THEN finance
        ELSE sales]

NarratorErrorConsensus ==
  IF backend_mode = "live"
    THEN run_live_agent_pipeline(order_request, NarratorErrorResults).consensus_reached
    ELSE manager_consensus_node(NarratorErrorResults)

SameDecision(a, b) ==
  /\ a.can_proceed = b.can_proceed
  /\ a.confidence = b.confidence
  /\ \A k \in {"final_price", "agreed_price", "production_days", "delivery_date"} :
       Get(a, k, Null) = Get(b, k, Null)

\* C7: whatever the narrators answered, every gate has the can_proceed and
\* the numeric results (price, confidence, days) it has when every narrator
\* call fails, and the consensus decision is the same.
C7_NarratorNeverChangesDecision ==
  Evaluated =>
    /\ \A g \in Gates : SameDecision(agent_results[g], NarratorErrorResults[g])
    /\ process_response.consensus_reached = NarratorErrorConsensus

----------------------------------------------------------------------------
(* The round revision: claims C8 to C10 *)

\* The orders of the negotiation so far: the recorded rounds and the order
\* of the round in progress.
OrdersSoFar ==
  {rounds[i].order_context : i \in 1..Len(rounds)}
    \cup (IF pc = "round_start" THEN {} ELSE {current_order})

RevisedOrders == {o \in OrdersSoFar : o.negotiationContext.round_number >= 2}

FirstOrder == build_synk_order(order_payload)

\* C8 as stated: every revised order asks at least the round-1 price.
C8_PriceNeverBelowRoundOne ==
  \A o \in RevisedOrders : o.requestedPrice >= FirstOrder.requestedPrice

\* round(anchor * (1 + max_price_uplift), 2) for the customer of the order
CustomerCeiling ==
  LET customer_profile ==
        IF inventory_manager.loaded THEN get_customer_profile(FirstOrder.customer)
        ELSE EmptyDict
  IN RoundDiv(FirstOrder.negotiationContext.original_requested_price
                * (100 + Get(customer_profile, "max_price_uplift", 20)), 100)

\* C8 as amended: every revised order asks at least the smaller of the
\* round-1 price and the customer ceiling, the ceiling being taken on the
\* anchor price, which is the request's own original_requested_price when
\* it carries one.
C8_PriceAtLeastRoundOneOrCeiling ==
  \A o \in RevisedOrders :
    o.requestedPrice >= Min(FirstOrder.requestedPrice, CustomerCeiling)

\* A round-2 order whose price was cut to the ceiling below the round-1 price.
C8_Witness ==
  \E o \in RevisedOrders :
    /\ "sales" \in Range(o.negotiationContext.blocking_agents)
    /\ o.requestedPrice = CustomerCeiling
    /\ o.requestedPrice < FirstOrder.requestedPrice

\* min over the BOM materials of floor(stock / quantity per unit)
ImmediatelyFulfillable ==
  LET bom == get_product_bom(inventory_manager, FirstOrder.product)
  IN SetMin({OrElse(get_material_stock(inventory_manager, m), 0) \div bom[m] :
               m \in DOMAIN bom})

\* C9: the quantity of an order never exceeds the round-1 quantity, and a
\* quantity below it is the quantity that stock can fulfil immediately.
C9_QuantityBoundedAndFeasible ==
  \A o \in OrdersSoFar :
    /\ o.quantity <= FirstOrder.quantity
    /\ o.quantity < FirstOrder.quantity => o.quantity = ImmediatelyFulfillable

AnchorsOf(order) ==
  <<order.negotiationContext.original_requested_price,
    order.negotiationContext.original_requested_delivery_days,
    order.negotiationContext.original_quantity>>

\* C10 as stated: the anchors of every round are the price, days and
\* quantity of the round-1 order.
C10_AnchorsAreRoundOneOrder ==
  \A o \in OrdersSoFar :
    AnchorsOf(o) = <<FirstOrder.requestedPrice, FirstOrder.requestedDeliveryDays,
                     FirstOrder.quantity>>

\* The anchors a request asks for: those of its own negotiationContext, and
\* the price, days and quantity of the round-1 order where it has none.
RequestedAnchors ==
  LET incoming_context == Get(order_payload, "negotiationContext", EmptyDict)
  IN <<Get(incoming_context, "original_requested_price", FirstOrder.requestedPrice),
       Get(incoming_context, "original_requested_delivery_days",
           FirstOrder.requestedDeliveryDays),
       Get(incoming_context, "original_quantity", FirstOrder.quantity)>>

\* C10 as amended: the anchors are set once when the order is built, from
\* the request's negotiationContext where it carries them and from the
\* round-1 order otherwise, and every later round has the same anchors.
C10_AnchorsSetOnceAtBuild ==
  \A o \in OrdersSoFar : AnchorsOf(o) = RequestedAnchors

\* A third round, revised in price, days and quantity, of a request that
\* brought an anchor of its own.
C10_Witness ==
  /\ Len(rounds) = 3
  /\ "negotiationContext" \in DOMAIN order_payload
  /\ rounds[3].order_context.requestedPrice # rounds[1].order_context.requestedPrice
  /\ rounds[3].order_context.requestedDeliveryDays
       # rounds[1].order_context.requestedDeliveryDays
  /\ AnchorsOf(rounds[3].order_context) = AnchorsOf(rounds[1].order_context)
  /\ AnchorsOf(rounds[1].order_context)
       # <<FirstOrder.requestedPrice, FirstOrder.requestedDeliveryDays,
           FirstOrder.quantity>>

----------------------------------------------------------------------------
(* Order validation: claim C11 *)

\* C11: an order whose quantity is zero or negative is rejected as a
\* validation failure before any of the five evaluators runs: no gate is
\* evaluated for such an order.
C11_NonPositiveQuantityNeverEvaluated ==
  FirstOrder.quantity <= 0 => \A g \in Gates : agent_results[g] = EmptyDict

----------------------------------------------------------------------------
(* The round-2 revision after a procurement block: claim C12 *)

\* Round 1 was evaluated and procurement was its only blocking gate.
ProcurementSoleBlocker ==
  /\ Len(round_responses) >= 1
  /\ get_blocking_agents(round_responses[1]) = <<"procurement">>

\* The round-2 order, once derived.
RoundTwoOrders ==
  (IF Len(rounds) >= 2 THEN {rounds[2].order_context} ELSE {})
    \cup (IF round_number = 2 /\ pc # "round_start" THEN {current_order} ELSE {})

\* C12 as stated: after a round 1 blocked by procurement alone the round-2
\* order asks primary_lead_time + 2 days at the same price and quantity and
\* records blocking_agents = [procurement].
C12_ProcurementBlockSetsLeadTimeDays ==
  ProcurementSoleBlocker =>
    \A o \in RoundTwoOrders :
      /\ o.requestedDeliveryDays = procurement_policy.primary_lead_time_days + 2
      /\ o.requestedPrice = FirstOrder.requestedPrice
      /\ o.quantity = FirstOrder.quantity
      /\ o.negotiationContext.blocking_agents = <<"procurement">>

\* C12 amended: the days are extended to primary_lead_time + 2 and never
\* shortened (the larger of the round-1 days and primary_lead_time + 2), the
\* price is the round-1 price, the quantity is the round-1 quantity raised
\* to at least 1, and the context records blocking_agents = [procurement].
C12_ProcurementBlockExtendsDays ==
  ProcurementSoleBlocker =>
    \A o \in RoundTwoOrders :
      /\ o.requestedDeliveryDays =
           Max(FirstOrder.requestedDeliveryDays,
               procurement_policy.primary_lead_time_days + 2)
      /\ o.requestedPrice = FirstOrder.requestedPrice
      /\ o.quantity = Max(1, FirstOrder.quantity)
      /\ o.negotiationContext.blocking_agents = <<"procurement">>

\* Scenario B: a round 1 of 8 days blocked by procurement alone, revised to
\* the 12 days of the primary supplier with its buffer.
C12_Witness ==
  /\ ProcurementSoleBlocker
  /\ FirstOrder.requestedDeliveryDays = 8
  /\ \E o \in RoundTwoOrders : o.requestedDeliveryDays = 12

----------------------------------------------------------------------------
(* Scenario A: claim C13 *)

\* Round 1 of the Scenario A order on the Scenario A store, evaluated.
ScenarioARoundOne ==
  /\ Evaluated
  /\ round_number = 1
  /\ inventory_manager = ScenarioAStore
  /\ order_payload = ScenarioAPayload

\* The gate figures of Scenario A: every gate approves, production_days 5,
\* shipping_cost 30.00, unit_cost 8.80, final_price and agreed_price 12.00.
ScenarioAVerdicts ==
  /\ VerdictsAllApprove
  /\ agent_results["procurement"].total_cost = 60000
  /\ agent_results["production"].production_days = 5
  /\ agent_results["logistics"].shipping_cost = 3000
  /\ agent_results["finance"].unit_cost = 880
  /\ agent_results["finance"].final_price = 1200
  /\ agent_results["sales"].agreed_price = 1200

\* C13: for the Scenario A order all five gates approve in round 1 with
\* production_days 5, shipping_cost 30, unit_cost 8.80, final_price 12 and
\* agreed_price 12, and consensus is SUCCESS with total_deal_value 1200.
C13_ScenarioA ==
  ScenarioARoundOne =>
    /\ ScenarioAVerdicts
    /\ process_response.status = "SUCCESS"
    /\ Get(process_response, "total_deal_value", Null) = 120000

----------------------------------------------------------------------------
(* C14: stock covers every BOM material *)

\* The procurement gate has returned its verdict in this round.
ProcurementEvaluated == agent_results["procurement"] # EmptyDict

\* required = quantity-per-unit x quantity of the order, per BOM material.
RequiredOf(material_id) ==
  get_product_bom(inventory_manager, order_request.product_sku)[material_id]
    * order_request.quantity

BomMaterials == DOMAIN get_product_bom(inventory_manager, order_request.product_sku)

AllMaterialsInStock ==
  /\ BomMaterials # {}
  /\ \A m \in BomMaterials : inventory_manager.stock[m] >= RequiredOf(m)

----------------------------------------------------------------------------
(* C15: the volume discount as a function of the quantity *)

\* Quantities around every tier boundary of finance_policy.volume_discounts
\* and on both sides of the last max_qty.
DiscountQuantities ==
  {1, 2, 10, 50, 98, 99, 100, 101, 250, 500, 998, 999, 1000, 1001, 2500, 4998, 4999,
   5000, 5001, 7500, 10000, 1000000, 99999998, 99999999, 100000000, 100000001,
   200000000, 1000000000}

DiscountPayloads ==
  {Payload(c, q, 1200, 18, "normal") : c \in PayloadCustomers, q \in DiscountQuantities}

\* An order about to be priced: the finance gate is the next to run.
DiscountInit ==
  /\ backend_mode = "live"
  /\ inventory_manager = Store(AmpleStock, EmptyDict, EmptyDict, << >>, EmptyDict)
  /\ order_payload \in DiscountPayloads
  /\ pc = "finance"
  /\ round_number = 1
  /\ current_order = build_synk_order(order_payload)
  /\ agent_results = NoResults
  /\ process_response = EmptyDict
  /\ rounds = << >>
  /\ round_responses = << >>
  /\ consensus_payload = EmptyDict

\* discount_rate = float(self.inventory_manager.get_volume_discount_rate(quantity))
QuoteVolumeDiscount ==
  GateStep("finance",
           [discount_rate |-> get_volume_discount_rate(order_request.quantity)],
           "sales")

DiscountNext == QuoteVolumeDiscount

DiscountSpec == DiscountInit /\ [][DiscountNext]_vars

\* C15: the volume discount rate is non-decreasing in the quantity: the rate
\* quoted for an order is at least the rate of every smaller quantity and at
\* most the rate of every larger one, across every tier boundary and above the
\* last configured tier.
C15_VolumeDiscountNonDecreasing ==
  (pc = "sales" /\ "discount_rate" \in DOMAIN agent_results["finance"]) =>
    \A q \in DiscountQuantities :
      /\ q <= order_request.quantity =>
           get_volume_discount_rate(q) <= agent_results["finance"].discount_rate
      /\ q >= order_request.quantity =>
           get_volume_discount_rate(q) >= agent_results["finance"].discount_rate

----------------------------------------------------------------------------
(* C16: the policy store is read-only *)

\* The stock figures a procurement verdict reports, per material.
AvailableSeen(verdict) ==
  [m \in DOMAIN Get(verdict, "material_availability", EmptyDict) |->
     verdict.material_availability[m].available]

\* The procurement verdicts of the rounds recorded so far.
RecordedProcurementVerdicts ==
  {round_responses[i].agent_responses["procurement"] :
     i \in {j \in DOMAIN round_responses :
              /\ "agent_responses" \in DOMAIN round_responses[j]
              /\ "procurement" \in DOMAIN round_responses[j].agent_responses}}

----------------------------------------------------------------------------
(* C17: sourcing a shortfall from the primary or the alternate supplier *)

ShortMaterials ==
  {m \in BomMaterials : OrElse(get_material_stock(inventory_manager, m), 0) < RequiredOf(m)}

ShortfallOf(m) == RequiredOf(m) - OrElse(get_material_stock(inventory_manager, m), 0)

\* The catalog entry of the supplier offers the whole shortfall of every short
\* material and its lead time plus the two-day buffer fits the requested days.
SupplierQualifies(supplier_name) ==
  /\ supplier_name \in DOMAIN inventory_manager.suppliers
  /\ \A m \in ShortMaterials :
       /\ m \in DOMAIN inventory_manager.suppliers[supplier_name].materials
       /\ inventory_manager.suppliers[supplier_name].materials[m].available >= ShortfallOf(m)
  /\ order_request.requested_delivery_days
       >= inventory_manager.suppliers[supplier_name].lead_time_days + 2

\* Cost of the whole requirement at stock prices plus the shortfall at the
\* supplier's prices.
SourcedTotalCost(supplier_name) ==
  SumOver([m \in BomMaterials |-> RequiredOf(m) * inventory_manager.unit_cost[m]], BomMaterials)
  + SumOver([m \in ShortMaterials |->
               ShortfallOf(m)
                 * RoundDiv(inventory_manager.unit_cost[m]
                              * inventory_manager.suppliers[supplier_name].materials[m].price_multiplier,
                            100)],
            ShortMaterials)

SourcedFrom(verdict, supplier_name) ==
  /\ verdict.purchase_order # EmptyDict
  /\ verdict.purchase_order.supplier = supplier_name
  /\ verdict.total_cost = SourcedTotalCost(supplier_name)

\* C17: with at least one BOM material short, the procurement gate approves
\* exactly when the primary supplier, or else the configured alternate
\* supplier, covers every shortfall in full within requested days minus the
\* two-day buffer; the primary supplier is used whenever it qualifies, and the
\* chosen supplier's sourced cost is added to total_cost.
C17_SourcedIffSupplierQualifies ==
  (ProcurementEvaluated /\ ShortMaterials # {}) =>
    LET verdict == agent_results["procurement"]
        primary_supplier   == procurement_policy.primary_supplier
        alternate_supplier == procurement_policy.alternate_supplier
    IN /\ verdict.can_proceed
            <=> (SupplierQualifies(primary_supplier) \/ SupplierQualifies(alternate_supplier))
       /\ SupplierQualifies(primary_supplier) => SourcedFrom(verdict, primary_supplier)
       /\ (~SupplierQualifies(primary_supplier) /\ SupplierQualifies(alternate_supplier))
            => SourcedFrom(verdict, alternate_supplier)

----------------------------------------------------------------------------
(* C18: the production gate *)

ProductionEvaluated == agent_results["production"] # EmptyDict

\* Capacity and production_days as check_production_capacity computes them for
\* the order under the strategy of its negotiation context.
OrderCapacity ==
  check_production_capacity(inventory_manager, order_request.product_sku,
                            order_request.quantity,
                            order_request.requested_delivery_days,
                            own_strategy_of(order_request.negotiation_context))

\* C18: the production gate approves exactly when the quantity fits the
\* planning window and production_days = max(5, ceil(quantity / effective
\* capacity x working days) + changeover penalty) is within the requested
\* days, and that production_days is the value the verdict reports, so the
\* reported value is never below 5.
C18_ProductionApprovesIffCapacityAndSchedule ==
  ProductionEvaluated =>
    LET verdict == agent_results["production"]
    IN /\ verdict.can_proceed
            <=> (OrderCapacity.capacity_ok
                 /\ OrderCapacity.production_days <= order_request.requested_delivery_days)
       /\ verdict.production_days = OrderCapacity.production_days
       /\ verdict.production_days >= 5

----------------------------------------------------------------------------
(* C19 and C20: the logistics gate *)

LogisticsEvaluated == agent_results["logistics"] # EmptyDict

\* The carriers of the mode that serve the destination's location type and
\* take the quantity.
ViableCarriers(mode) ==
  LET carriers == Get(inventory_manager.carrier_networks, mode, << >>)
  IN {carriers[i] : i \in {j \in DOMAIN carriers :
         /\ get_location_type(order_request.customer_location)
              \in carriers[j].supported_locations
         /\ order_request.quantity <= carriers[j].max_units}}

SurvivingModes ==
  {mode \in DOMAIN logistics_policy.shipping_modes : ViableCarriers(mode) # {}}

\* C19: when no shipping mode survives the carrier filtering (no carrier of
\* any mode serves the location type and takes the quantity, or the carrier
\* catalog is absent), the logistics gate returns can_proceed = false.
C19_NoSurvivingModeRejects ==
  (LogisticsEvaluated /\ SurvivingModes = {}) =>
    ~agent_results["logistics"].can_proceed


ProductionDaysForLogistics ==
  OrElse(Get(agent_results["production"], "production_days", Null), 14)

\* cost_per_unit x quantity + the fixed fee of the cheapest viable carrier.
CheapestCarrierCost(mode) ==
  logistics_policy.shipping_modes[mode].cost_per_unit * order_request.quantity
  + SetMin({carrier.fixed_fee : carrier \in ViableCarriers(mode)})

ModeMeetsSchedule(mode) ==
  ProductionDaysForLogistics + logistics_policy.shipping_modes[mode].transit_days
    <= order_request.requested_delivery_days

\* (does not meet schedule, cost) of mode a is smaller than that of mode b.
RankedBefore(a, b) ==
  \/ ModeMeetsSchedule(a) /\ ~ModeMeetsSchedule(b)
  \/ /\ ModeMeetsSchedule(a) = ModeMeetsSchedule(b)
     /\ CheapestCarrierCost(a) < CheapestCarrierCost(b)

\* C20: among the surviving shipping modes the logistics gate chooses a first
\* one under (does not meet schedule, cost ascending), the cost of a mode being
\* cost_per_unit x quantity plus the fixed fee of its cheapest viable carrier;
\* it reports that cost, and approves exactly when the chosen mode meets the
\* schedule, so a schedule-meeting mode is chosen whenever one exists.
C20_ChoosesFirstRankedMode ==
  (LogisticsEvaluated /\ SurvivingModes # {}) =>
    LET verdict == agent_results["logistics"]
    IN /\ verdict.shipping_mode \in SurvivingModes
       /\ \A mode \in SurvivingModes : ~RankedBefore(mode, verdict.shipping_mode)
       /\ verdict.shipping_cost = CheapestCarrierCost(verdict.shipping_mode)
       /\ verdict.can_proceed <=> ModeMeetsSchedule(verdict.shipping_mode)

----------------------------------------------------------------------------
(* C21: the finance gate *)

FinanceEvaluated == "final_price" \in DOMAIN agent_results["finance"]

\* requested_price x (1 + max_price_uplift) of the order's customer, to the cent.
FinanceCeiling ==
  RoundDiv(order_request.requested_price
             * (100 + get_customer_profile(order_request.customer).max_price_uplift),
           100)

\* (price - unit_cost) / price >= margin_floor
MarginAtLeastFloor(price, unit_cost) ==
  price > 0 /\ (price - unit_cost) * 100 >= finance_policy.margin_floor * price

\* C21: the finance gate's final_price is max(requested_price, min(ceiling,
\* max(requested_price, minimum_viable_price))) with ceiling = requested_price
\* x (1 + max_price_uplift), so it lies between the requested price and the
\* ceiling, and finance approves exactly when the margin at final_price,
\* (final_price - unit_cost) / final_price, is at least margin_floor.
C21_FinalPriceAndMarginFloor ==
  FinanceEvaluated =>
    LET verdict == agent_results["finance"]
        requested_price == order_request.requested_price
    IN /\ verdict.final_price =
            Max(requested_price,
                Min(FinanceCeiling, Max(requested_price, verdict.minimum_viable_price)))
       /\ requested_price <= verdict.final_price
       /\ verdict.final_price <= FinanceCeiling
       /\ verdict.can_proceed <=> MarginAtLeastFloor(verdict.final_price, verdict.unit_cost)


----------------------------------------------------------------------------
(* C22: the sales gate and the customer's tolerances *)

SalesEvaluated == agent_results["sales"] # EmptyDict

\* The price the sales gate is offered: finance's final_price.
SalesProposedPrice ==
  OrElse(Get(agent_results["finance"], "final_price", Null), order_request.requested_price)

\* C22: whenever the sales gate approves, the uplift of the proposed price
\* over the anchor (round-1) price is at most the customer's max_price_uplift
\* and the slip of the offered delivery days over the anchor days is at most
\* the customer's acceptable_delivery_buffer_days.
C22_SalesApprovesOnlyWithinTolerance ==
  LET customer_profile == get_customer_profile(order_request.customer)
      anchor_price == current_order.negotiationContext.original_requested_price
      anchor_days  == current_order.negotiationContext.original_requested_delivery_days
  IN (SalesEvaluated /\ agent_results["sales"].can_proceed) =>
       /\ (SalesProposedPrice - anchor_price) * 100
            <= Get(customer_profile, "max_price_uplift", 20) * anchor_price
       /\ Max(0, current_order.requestedDeliveryDays - anchor_days)
            <= Get(customer_profile, "acceptable_delivery_buffer_days", 2)


----------------------------------------------------------------------------
(* C23..C26: what derive_revised_order makes of the blockers of a round *)

\* The order of round n, once derived.
OrdersOfRound(n) ==
  (IF Len(rounds) >= n THEN {rounds[n].order_context} ELSE {})
    \cup (IF round_number = n /\ pc # "round_start" THEN {current_order} ELSE {})

\* The failed rounds that a later round follows.
RevisedRounds == {n \in 1..(LAST_ROUND - 1) : n <= Len(round_responses)}

BlockersOfRound(n) == Range(get_blocking_agents(round_responses[n]))

GateResultOfRound(n, gate) ==
  Get(Get(round_responses[n], "agent_responses", EmptyDict), gate, EmptyDict)

\* C23: when finance is among the blockers of round n, the order of round
\* n+1 asks at least the final_price of the finance gate of round n.
C23_FinanceBlockRaisesPriceToFloor ==
  \A n \in RevisedRounds :
    ("finance" \in BlockersOfRound(n) /\ "final_price" \in DOMAIN GateResultOfRound(n, "finance")) =>
      \A o \in OrdersOfRound(n + 1) :
        o.requestedPrice >= GateResultOfRound(n, "finance").final_price


\* C23 as amended: the order of round n+1 asks at least finance's
\* final_price of round n when sales did not block round n, and at least the
\* smaller of that price and the customer ceiling when sales blocked too.
C23_FinanceBlockRaisesPriceUpToCeiling ==
  \A n \in RevisedRounds :
    ("finance" \in BlockersOfRound(n) /\ "final_price" \in DOMAIN GateResultOfRound(n, "finance")) =>
      \A o \in OrdersOfRound(n + 1) :
        o.requestedPrice >=
          IF "sales" \in BlockersOfRound(n)
            THEN Min(GateResultOfRound(n, "finance").final_price, CustomerCeiling)
            ELSE GateResultOfRound(n, "finance").final_price

\* Finance and sales both blocked a round and the next order asks the
\* customer ceiling, below finance's final_price.
C23_Witness ==
  \E n \in RevisedRounds :
    /\ {"finance", "sales"} \subseteq BlockersOfRound(n)
    /\ "final_price" \in DOMAIN GateResultOfRound(n, "finance")
    /\ order_payload.quantity >= 100
    /\ \E o \in OrdersOfRound(n + 1) :
         /\ o.requestedPrice = CustomerCeiling
         /\ o.requestedPrice < GateResultOfRound(n, "finance").final_price


\* acceptable_delivery_buffer_days of the customer of the order
CustomerBuffer ==
  LET customer_profile ==
        IF inventory_manager.loaded THEN get_customer_profile(FirstOrder.customer)
        ELSE EmptyDict
  IN Get(customer_profile, "acceptable_delivery_buffer_days", 2)

\* C24: when sales is among the blockers of round n, the order of round n+1
\* asks at most the customer ceiling (anchor price x (1 + max_price_uplift))
\* and at least the anchor days plus the customer's buffer days.
C24_SalesBlockCapsPriceAndExtendsDays ==
  \A n \in RevisedRounds :
    "sales" \in BlockersOfRound(n) =>
      \A o \in OrdersOfRound(n + 1) :
        /\ o.requestedPrice <= CustomerCeiling
        /\ o.requestedDeliveryDays >=
             FirstOrder.negotiationContext.original_requested_delivery_days + CustomerBuffer

\* Sales, through its own verdict, blocked a round whose order asked more
\* than the ceiling or fewer days than anchor plus buffer, and the next order
\* is cut to the ceiling.
C24_Witness ==
  \E n \in RevisedRounds :
    /\ "sales" \in BlockersOfRound(n)
    /\ GateResultOfRound(n, "sales") # EmptyDict
    /\ \E o \in OrdersOfRound(n + 1) : o.requestedPrice = CustomerCeiling
    /\ \E previous \in OrdersOfRound(n) :
         \/ previous.requestedPrice > CustomerCeiling
         \/ previous.requestedDeliveryDays <
              FirstOrder.negotiationContext.original_requested_delivery_days + CustomerBuffer


\* Round 1 is over and production or logistics was among its blockers.
OperationsBlockedRoundOne ==
  /\ Len(round_responses) >= 1
  /\ {"production", "logistics"} \cap BlockersOfRound(1) # {}

\* The gates are at work on the order of round 2.
EvaluatingRoundTwo == round_number = 2 /\ pc \in EvaluatingPcs

\* C25: when production or logistics blocked round 1, the order the gates
\* evaluate in round 2 has production strategy preempt_and_overtime and
\* priority critical and asks at least 5% more than the anchor price.
C25_OperationsBlockEscalatesEvaluatedOrder ==
  (OperationsBlockedRoundOne /\ EvaluatingRoundTwo) =>
    /\ order_request.negotiation_context.production_strategy = "preempt_and_overtime"
    /\ order_request.priority = "critical"
    /\ order_request.requested_price * 100
         >= 105 * order_request.negotiation_context.original_requested_price

\* C25 as amended: the revised order of round 2 has strategy
\* preempt_and_overtime and priority critical and asks at least 5% more than
\* the anchor price; the order the gates evaluate is built from it with the
\* priority normalised to expedited.
C25_OperationsBlockEscalatesRevisedOrder ==
  (OperationsBlockedRoundOne /\ EvaluatingRoundTwo) =>
    /\ order_request.negotiation_context.production_strategy = "preempt_and_overtime"
    /\ current_order.priority = "critical"
    /\ order_request.priority = "expedited"
    /\ order_request.requested_price * 100
         >= 105 * order_request.negotiation_context.original_requested_price

\* Production or logistics rejected the round-1 order by its own verdict and
\* the gates have reached sales on the escalated round-2 order.
C25_Witness ==
  /\ OperationsBlockedRoundOne
  /\ GateResultOfRound(1, "production") # EmptyDict
  /\ EvaluatingRoundTwo
  /\ pc = "sales"
  /\ current_order.requestedPrice > FirstOrder.requestedPrice


\* The procurement gate itself rejected the order of round n.
ProcurementRejectedRound(n) ==
  /\ n <= Len(round_responses)
  /\ GateResultOfRound(n, "procurement") # EmptyDict
  /\ ~GateResultOfRound(n, "procurement").can_proceed

\* C26: the round-3 order has production strategy phased_split_delivery and
\* priority critical, and when procurement blocked round 2 its quantity is at
\* most the minimum over the BOM materials of
\* floor(available stock / quantity per unit).
C26_RoundThreeSplitsAndFitsStock ==
  \A o \in OrdersOfRound(LAST_ROUND) :
    /\ o.negotiationContext.production_strategy = "phased_split_delivery"
    /\ o.priority = "critical"
    /\ ProcurementRejectedRound(LAST_ROUND - 1) => o.quantity <= ImmediatelyFulfillable


----------------------------------------------------------------------------
(* C27: the live pipeline never fails five approvals on confidence *)

\* run_live_agent_pipeline has answered for this round.
LiveEvaluated ==
  /\ pc = "summary"
  /\ backend_mode = "live"
  /\ process_response # EmptyDict

\* The approving gates whose own normalised confidence is below 0.70.
LowConfidenceApprovers ==
  {g \in Gates :
     /\ Get(agent_results[g], "can_proceed", FALSE)
     /\ normalize_confidence(Get(agent_results[g], "confidence", StabilizeFallback[g]),
                             StabilizeFallback[g]) < MIN_CONSENSUS_CONFIDENCE}

\* C27: in the live pipeline every approving gate with a normalised confidence
\* below 0.70 is averaged with its fallback, which is at least 0.80, and
\* consensus_reached is true exactly when all five gates approve.
C27_LiveApprovalsNeverFailOnConfidence ==
  LiveEvaluated =>
    /\ \A g \in LowConfidenceApprovers :
         /\ process_response.agent_responses[g].confidence = StabilizeFallback[g]
         /\ StabilizeFallback[g] >= 8000
    /\ process_response.consensus_reached <=> VerdictsAllApprove

\* Five approvals, one of them with a confidence of 0.50, reach consensus.
C27_Witness ==
  /\ LiveEvaluated
  /\ VerdictsAllApprove
  /\ LowConfidenceApprovers # {}
  /\ process_response.consensus_reached


----------------------------------------------------------------------------
(* C28: the price of a negotiation that ends approved *)

\* The negotiation is over and was approved by gates, not by the mock.
ApprovedThroughGates ==
  /\ pc = "done"
  /\ backend_mode \in {"live", "manager"}
  /\ consensus_payload.approved
  /\ round_responses[Len(round_responses)] # EmptyDict

\* C28: a negotiation approved through the five gates ends at a unit price
\* that is at least the anchor price and at most the customer ceiling, and the
\* finance margin at that price is at least margin_floor.
C28_ApprovedPriceWithinBoundsAndMargin ==
  ApprovedThroughGates =>
    LET anchor_price == FirstOrder.negotiationContext.original_requested_price
        final_price  == consensus_payload.finalPrice
        unit_cost    == GateResultOfRound(Len(round_responses), "finance").unit_cost
    IN /\ final_price >= anchor_price
       /\ final_price <= CustomerCeiling
       /\ MarginAtLeastFloor(final_price, unit_cost)


----------------------------------------------------------------------------
(* C29: a round whose evaluation raises *)

\* The rounds recorded without a response: run_process_order_for_synk raised
\* (or returned None).
RaisedRounds == {n \in 1..Len(round_responses) : round_responses[n] = EmptyDict}

\* C29: a round that raised is recorded as not converged, the order of the
\* next round names all five gates as blockers, the negotiation still runs
\* its later rounds (three at most) before it ends, and it ends rejected when
\* its last round raised or failed.
C29_RaisedRoundDoesNotAbort ==
  /\ \A n \in RaisedRounds :
       /\ ~rounds[n].converged
       /\ \A o \in OrdersOfRound(n + 1) :
            o.negotiationContext.blocking_agents = AGENT_IDS
       /\ pc \in {"consensus_phase", "done"} => Len(rounds) = LAST_ROUND \/ rounds[Len(rounds)].converged
  /\ Len(rounds) <= LAST_ROUND
  /\ pc = "done" =>
       ((Len(rounds) \in RaisedRounds \/ ~rounds[Len(rounds)].converged)
          => ~consensus_payload.approved)

\* Round 1 of a live negotiation raised, round 2 was evaluated by the gates
\* and failed, round 3 raised, and the negotiation ended rejected.
C29_Witness ==
  /\ pc = "done"
  /\ backend_mode = "live"
  /\ RaisedRounds = {1, 3}
  /\ \A o \in OrdersOfRound(2) : o.negotiationContext.blocking_agents = AGENT_IDS
  /\ ~consensus_payload.approved


----------------------------------------------------------------------------
(* C30: a procurement block that only needs a longer delivery window *)

\* The catalog entry of the primary supplier offers the whole shortfall of
\* every short material.
PrimaryCoversShortfalls ==
  LET primary_supplier == procurement_policy.primary_supplier
  IN /\ ShortMaterials # {}
     /\ primary_supplier \in DOMAIN inventory_manager.suppliers
     /\ \A m \in ShortMaterials :
          /\ m \in DOMAIN inventory_manager.suppliers[primary_supplier].materials
          /\ inventory_manager.suppliers[primary_supplier].materials[m].available
               >= ShortfallOf(m)

====
